---- MODULE Spec2Model ----
(***************************************************************************)
(* Model of gcl_sdk's universal agent reconciliation driver                *)
(* (agents/universal/drivers/direct.py) over the REST backend client       *)
(* (agents/universal/clients/backend/rest.py) and the target fields        *)
(* storage.  A pass is start -> list -> [create|update|delete]* ->         *)
(* finalize; the backend changes on its own between the driver's steps.    *)
(***************************************************************************)
EXTENDS Integers, FiniteSets, Sequences, TLC

\* ------------------------------------------------------------------ bounds

\* driver mutations (create/update/delete) plus backend-side changes per run
MaxChanges == 3

\* ---------------------------------------------------------------- universe

Procs == {"p1", "p2"}
\* the processes that run passes under Spec (one agent, one pass at a time)
Running == {"p1"}

Capabilities == {"k1", "k2"}
Kinds == Capabilities \cup {"kx"}
Uuids == {"u1", "u2"}

Null == "null"
Shapes == {"resource", "dict", "model"}

\* the read-only attributes the REST client never sends on update
ReadOnlyFields == {"created_at", "updated_at", "project_id", "uuid"}
\* attributes a model leaves out of its resource view
ResourceIgnoreFields == {"updated_at"}

EmptyValue == [a \in {} |-> "a"]
EmptyStore == [k \in {} |-> {}]

\* the attribute mappings callers pass in
InboundValues ==
    { [a \in {"name"} |-> "a"],
      [a \in {"name", "size"} |-> IF a = "name" THEN "b" ELSE "a"] }

\* the attribute mappings another party creates objects with
BackendValues == { [a \in {"name"} |-> "a"] }

\* -------------------------------------------------------------- mappings

Put(f, k, v) == [x \in (DOMAIN f) \cup {k} |-> IF x = k THEN v ELSE f[x]]
Remove(f, k) == [x \in (DOMAIN f) \ {k} |-> f[x]]
Without(f, ks) == [x \in (DOMAIN f) \ ks |-> f[x]]
Merge(f, g) == [x \in (DOMAIN f) \cup (DOMAIN g) |-> IF x \in DOMAIN g THEN g[x] ELSE f[x]]

\* an optional store entry: {} when absent, {fields} when present
Entry(s, kind, uuid) == IF <<kind, uuid>> \in DOMAIN s THEN {s[<<kind, uuid>>]} ELSE {}

\* ---------------------------------------------------- target fields storage

StorageHas(s, kind, uuid) == <<kind, uuid>> \in DOMAIN s

\* create(item, force): "ok" or ItemAlreadyExists
StorageCreate(s, kind, uuid, fields, force) ==
    IF (~force) /\ StorageHas(s, kind, uuid)
    THEN [exc |-> "ItemAlreadyExists", store |-> s]
    ELSE [exc |-> "", store |-> Put(s, <<kind, uuid>>, fields)]

\* update(item): ItemNotFound when absent
StorageUpdate(s, kind, uuid, fields) ==
    IF StorageHas(s, kind, uuid)
    THEN [exc |-> "", store |-> Put(s, <<kind, uuid>>, fields)]
    ELSE [exc |-> "ItemNotFound", store |-> s]

\* delete(item, force): force never fails
StorageDelete(s, kind, uuid, force) ==
    IF (~force) /\ ~StorageHas(s, kind, uuid)
    THEN [exc |-> "ItemNotFound", store |-> s]
    ELSE [exc |-> "", store |-> Remove(s, <<kind, uuid>>)]

\* list(kind): the uuids of the kind, each with its fields
StorageList(s, kind) == [u \in {x \in Uuids : StorageHas(s, kind, x)} |-> s[<<kind, u>>]]

\* load(): the working copy becomes the durable backing
StorageLoad(d) == d
\* persist(): the durable backing becomes the working copy
StoragePersist(s) == s

\* ------------------------------------------------------ resource transformer

\* transformer_map: k1 drops every null attribute, k2 has no transformer
TransformerMap == [k \in {"k1"} |-> [ignore_null_attributes |-> TRUE, all |-> TRUE, attributes |-> {}]]

\* a transform that drops nulls whether asked to or not
TransformAlwaysDrops(t, view) ==
    IF t.all THEN [a \in {x \in DOMAIN view : view[x] # Null} |-> view[a]]
    ELSE [a \in {x \in DOMAIN view : ~(view[x] = Null /\ x \in t.attributes)} |-> view[a]]

\* a transform that takes every empty value for a null
TransformDropsEmpty(t, view) ==
    IF ~t.ignore_null_attributes THEN view
    ELSE IF t.all THEN [a \in {x \in DOMAIN view : view[x] \notin {Null, ""}} |-> view[a]]
    ELSE [a \in {x \in DOMAIN view : ~(view[x] \in {Null, ""} /\ x \in t.attributes)} |-> view[a]]

\* ResourceTransformer.transform; `all` stands for attributes is None
Transform(t, view) ==
    IF ~t.ignore_null_attributes THEN view
    ELSE IF t.all THEN [a \in {x \in DOMAIN view : view[x] # Null} |-> view[a]]
    ELSE [a \in {x \in DOMAIN view : ~(view[x] = Null /\ x \in t.attributes)} |-> view[a]]

TransformKind(kind, view) ==
    IF kind \in DOMAIN TransformerMap THEN Transform(TransformerMap[kind], view) ELSE view

\* ------------------------------------------------------------- resources

\* models.Resource.from_value(value, kind, target_fields): uuid is value["uuid"]
ResourceFromValue(value, kind, target_fields) ==
    [uuid |-> value["uuid"], kind |-> kind, value |-> value, target_fields |-> target_fields]

\* Resource.replace_value(value, target_fields)
ReplaceValue(kind, uuid, value, target_fields) ==
    [uuid |-> uuid, kind |-> kind, value |-> value, target_fields |-> target_fields]

\* a typed resource built by the backend client itself: it names every attribute
ClientResource(kind, uuid, value) ==
    [uuid |-> uuid, kind |-> kind, value |-> value, target_fields |-> DOMAIN value]

\* DirectAgentDriver._model_to_resource
ModelToResource(kind, value, target_fields) ==
    ResourceFromValue(TransformKind(kind, Without(value, ResourceIgnoreFields)), kind, target_fields)

\* DirectAgentDriver._prepare_res_response, per shape of the client's answer
PrepareResResponse(sh, kind, uuid, value, target_fields) ==
    IF sh = "resource" THEN ClientResource(kind, uuid, value)
    ELSE IF sh = "dict" THEN ReplaceValue(kind, uuid, TransformKind(kind, value), target_fields)
    ELSE ModelToResource(kind, value, target_fields)

\* ------------------------------------------------------------------ hashes

\* every attribute name, in the order sort_keys puts them
SortedKeys == <<"created_at", "name", "project_id", "size", "updated_at", "uuid">>

\* json.dumps(value, separators=(",", ":"), sort_keys=True): the pairs by key
JsonDumps(value) ==
    LET keys == SelectSeq(SortedKeys, LAMBDA k : k \in DOMAIN value)
    IN  [i \in DOMAIN keys |-> <<keys[i], value[keys[i]]>>]

\* a digest of the attribute names alone
CalculateHashKeysOnly(value) ==
    <<"sha256", SelectSeq(SortedKeys, LAMBDA k : k \in DOMAIN value)>>

\* utils.calculate_hash: the digest of the canonical text; sha256 is taken to
\* have no collisions, so the digest stands for the text it was made of
CalculateHash(value) == <<"sha256", JsonDumps(value)>>

\* Resource.hash: the digest of the target_fields part of the value
ResourceHash(r) ==
    CalculateHash([a \in (DOMAIN r.value) \cap r.target_fields |-> r.value[a]])

\* Resource.full_hash: the digest of the whole value
ResourceFullHash(r) == CalculateHash(r.value)

\* ---------------------------------------------------------- backend client

\* the project the REST client is bound to
ProjectId == "proj"

\* What one remote call can do: exc is "" on success, the client exception it
\* raises, or "Error" for any other transport or backend failure.
Outcome(exc, b, resp, value) == [exc |-> exc, backend |-> b, resp |-> resp, value |-> value]

\* a get that answers an object holding nothing but its uuid where there is none
ClientGetNeverMissing(b, kind, uuid) ==
    {Outcome("Error", b, EmptyValue, EmptyValue)} \cup
    (IF <<kind, uuid>> \in DOMAIN b
     THEN {Outcome("", b, b[<<kind, uuid>>], EmptyValue)}
     ELSE {Outcome("", b, [a \in {"uuid"} |-> uuid], EmptyValue)})

\* GCRestApiBackendClient.get
ClientGet(b, kind, uuid) ==
    {Outcome("Error", b, EmptyValue, EmptyValue)} \cup
    (IF <<kind, uuid>> \in DOMAIN b
     THEN {Outcome("", b, b[<<kind, uuid>>], EmptyValue)}
     ELSE {Outcome("ResourceNotFound", b, EmptyValue, EmptyValue)})

\* a create that looks at the project only once the request has gone out
ClientCreateChecksAfterSend(b, kind, uuid, value) ==
    LET injected == Put(value, "uuid", uuid)
        mismatch == /\ "project_id" \in DOMAIN injected
                    /\ injected["project_id"] \notin {Null, ""}
                    /\ injected["project_id"] # ProjectId
        sent == IF <<kind, uuid>> \in DOMAIN b THEN b ELSE Put(b, <<kind, uuid>>, injected)
    IN  IF mismatch THEN {Outcome("ResourceProjectMismatch", sent, EmptyValue, injected)}
        ELSE {Outcome("Error", b, EmptyValue, injected)} \cup
             (IF <<kind, uuid>> \in DOMAIN b
              THEN {Outcome("ResourceAlreadyExists", b, EmptyValue, injected)}
              ELSE {Outcome("", sent, injected, injected)})

\* GCRestApiBackendClient.create: the uuid goes into the caller's own value;
\* a project_id that is null or empty is taken for none
ClientCreate(b, kind, uuid, value) ==
    LET injected == Put(value, "uuid", uuid)
        mismatch == /\ "project_id" \in DOMAIN injected
                    /\ injected["project_id"] \notin {Null, ""}
                    /\ injected["project_id"] # ProjectId
    IN  IF mismatch THEN {Outcome("ResourceProjectMismatch", b, EmptyValue, injected)}
        ELSE {Outcome("Error", b, EmptyValue, injected)} \cup
             (IF <<kind, uuid>> \in DOMAIN b
              THEN {Outcome("ResourceAlreadyExists", b, EmptyValue, injected)}
              ELSE {Outcome("", Put(b, <<kind, uuid>>, injected), injected, injected)})

\* an update that strips every attribute before it sends
ClientUpdateStripsAll(b, kind, uuid, value) ==
    {Outcome("Error", b, EmptyValue, value)} \cup
    (IF <<kind, uuid>> \in DOMAIN b
     THEN {Outcome("", b, b[<<kind, uuid>>], value)}
     ELSE {Outcome("ResourceNotFound", b, EmptyValue, value)})

\* an update that sends the value as it is
ClientUpdateSendsAll(b, kind, uuid, value) ==
    {Outcome("Error", b, EmptyValue, value)} \cup
    (IF <<kind, uuid>> \in DOMAIN b
     THEN LET new == Merge(b[<<kind, uuid>>], value)
          IN  {Outcome("", Put(b, <<kind, uuid>>, new), new, value)}
     ELSE {Outcome("ResourceNotFound", b, EmptyValue, value)})

\* GCRestApiBackendClient.update: a copy without the read-only fields is sent
ClientUpdate(b, kind, uuid, value) ==
    LET sent == Without(value, ReadOnlyFields)
    IN  {Outcome("Error", b, EmptyValue, value)} \cup
        (IF <<kind, uuid>> \in DOMAIN b
         THEN LET new == Merge(b[<<kind, uuid>>], sent)
              IN  {Outcome("", Put(b, <<kind, uuid>>, new), new, value)}
         ELSE {Outcome("ResourceNotFound", b, EmptyValue, value)})

\* a list that forgets the collection of the kind
ClientListAnyKind(b, kind) ==
    [u \in {x \in Uuids : \E k \in Capabilities : <<k, x>> \in DOMAIN b} |->
        b[CHOOSE key \in DOMAIN b : key[2] = u]]

\* GCRestApiBackendClient.list: every object of the kind, by uuid
ClientList(b, kind) == [u \in {x \in Uuids : <<kind, x>> \in DOMAIN b} |-> b[<<kind, u>>]]

\* GCRestApiBackendClient.delete
ClientDelete(b, kind, uuid) ==
    {Outcome("Error", b, EmptyValue, EmptyValue)} \cup
    (IF <<kind, uuid>> \in DOMAIN b
     THEN {Outcome("", Remove(b, <<kind, uuid>>), EmptyValue, EmptyValue)}
     ELSE {Outcome("ResourceNotFound", b, EmptyValue, EmptyValue)})

\* ------------------------------------------------------------------ state

VARIABLES
    durable,    \* the storage's durable backing: <<kind, uuid>> -> fields
    storage,    \* per process, the storage's working copy
    backend,    \* the remote collection: <<kind, uuid>> -> attribute mapping
    pc,         \* per process: off, pass, create_remote, update_store, delete_store,
                \* returned (a call has ended and the caller looks at how)
    cur,        \* per process, the driver call in flight
    ret,        \* per process, how the driver call that has just returned ended
    intent,     \* history: the keys create has written an item for without the
                \* remote create having succeeded since
    changes,    \* mutations and backend-side changes so far
    sched,      \* the scheduler that drives the passes: what it wants and has planned
    poll,       \* the controller's payload service and the agent polling it
    tracked,    \* the controller's target and tracked resource rows
    applied     \* a pure function under application: its input and results

vars == <<durable, storage, backend, pc, cur, ret, intent, changes, sched, poll, tracked, applied>>

\* what the driver's own steps leave alone
others == <<sched, poll, tracked, applied>>

\* A scheduler that plans nothing: desired is what it wants the backend to
\* hold, todo the operations left in this pass, overlap whether a pass began
\* while another was under way.
NoSched == [phase |-> "", desired |-> EmptyValue, todo |-> {}, overlap |-> FALSE]

\* the agents that poll the controller for their assignment
Agents == {"a1", "a2"}

\* the hash of an agent that has no earlier state (hash= in the query)
NoHash == <<>>

\* No target resource assigned and no poll yet. assigned is the controller's
\* table of target resources, resp each agent's last answer with the hash it
\* had asked with, polls how often each agent has polled, fresh whether the
\* table is what it was at the agent's last poll.
NoPoll ==
    [assigned |-> EmptyValue,
     fresh |-> [a \in Agents |-> FALSE],
     polls |-> [a \in Agents |-> 0],
     resp |-> [a \in Agents |->
                 [capabilities |-> EmptyValue, facts |-> EmptyValue, hash |-> NoHash,
                  asked |-> NoHash]]]

\* no rows, and no function applied
NoTracked == [targets |-> EmptyValue, rows |-> EmptyValue]
NoApplied == [op |-> ""]

OthersIdle ==
    /\ sched = NoSched /\ poll = NoPoll
    /\ tracked = NoTracked /\ applied = NoApplied

\* A call: the resource it was given (value as it is now, orig as the caller
\* built it), the target_fields it computed, the working copy when it was made
\* (store0), what the remote call answered (remote) and whether it changed the
\* backend (touched), how the call ended (status) and what it returned (res).
NoCall ==
    [op |-> "", kind |-> "", uuid |-> "", value |-> EmptyValue, orig |-> EmptyValue,
     fields |-> {}, store0 |-> EmptyStore, remote |-> "", touched |-> FALSE,
     status |-> "", shape |-> "", res |-> <<>>]

Init ==
    /\ durable = EmptyStore
    /\ storage = [p \in Procs |-> EmptyStore]
    /\ backend = EmptyStore
    /\ pc = [p \in Procs |-> "off"]
    /\ cur = [p \in Procs |-> NoCall]
    /\ ret = [p \in Procs |-> NoCall]
    /\ intent = {}
    /\ changes = 0
    /\ OthersIdle

\* ------------------------------------------------------------ pass bracket

\* a start that loads nothing
DriverStartNoLoad(p) ==
    /\ pc[p] = "off"
    /\ pc' = [pc EXCEPT ![p] = "returned"]
    /\ ret' = [ret EXCEPT ![p] =
                 IF ret[p].op = "crash" THEN [ret[p] EXCEPT !.op = "start", !.status = "ok"]
                 ELSE [NoCall EXCEPT !.op = "start", !.status = "ok"]]
    /\ UNCHANGED <<durable, storage, backend, cur, intent, changes>>

\* DirectAgentDriver.start. After a crash inside create the call goes on
\* naming the resource that create was given.
DriverStart(p) ==
    /\ pc[p] = "off"
    /\ storage' = [storage EXCEPT ![p] = StorageLoad(durable)]
    /\ pc' = [pc EXCEPT ![p] = "returned"]
    /\ ret' = [ret EXCEPT ![p] =
                 IF ret[p].op = "crash" THEN [ret[p] EXCEPT !.op = "start", !.status = "ok"]
                 ELSE [NoCall EXCEPT !.op = "start", !.status = "ok"]]
    /\ UNCHANGED <<durable, backend, cur, intent, changes>>

\* a finalize that does not flush the store
DriverFinalizeNoPersist(p) ==
    /\ pc[p] = "pass"
    /\ pc' = [pc EXCEPT ![p] = "off"]
    /\ ret' = [ret EXCEPT ![p] = [NoCall EXCEPT !.op = "finalize", !.status = "ok"]]
    /\ UNCHANGED <<durable, storage, backend, cur, intent, changes>>

\* DirectAgentDriver.finalize
DriverFinalize(p) ==
    /\ pc[p] = "pass"
    /\ durable' = StoragePersist(storage[p])
    /\ pc' = [pc EXCEPT ![p] = "off"]
    /\ ret' = [ret EXCEPT ![p] = [NoCall EXCEPT !.op = "finalize", !.status = "ok"]]
    /\ UNCHANGED <<storage, backend, cur, intent, changes>>

\* The caller has looked at how the call ended and goes on with the pass.
Resume(p) ==
    /\ pc[p] = "returned"
    /\ pc' = [pc EXCEPT ![p] = "pass"]
    /\ ret' = [ret EXCEPT ![p] = NoCall]
    /\ UNCHANGED <<durable, storage, backend, cur, intent, changes>>

\* The process dies inside a pass: its working copy is gone, the durable
\* backing and the backend stay as they are.
Crash(p) ==
    /\ pc[p] # "off"
    /\ storage' = [storage EXCEPT ![p] = EmptyStore]
    /\ pc' = [pc EXCEPT ![p] = "off"]
    /\ cur' = [cur EXCEPT ![p] = NoCall]
    /\ ret' = [ret EXCEPT ![p] =
                 IF pc[p] = "create_remote"
                 THEN [cur[p] EXCEPT !.op = "crash", !.status = "crashed"]
                 ELSE [NoCall EXCEPT !.op = "crash", !.status = "crashed"]]
    /\ UNCHANGED <<durable, backend, intent, changes>>

\* ------------------------------------------------------------------ driver

Call(p, op, kind, uuid) ==
    [NoCall EXCEPT !.op = op, !.kind = kind, !.uuid = uuid, !.store0 = storage[p]]

\* a call ends: the caller gets r
Return(p, r) ==
    /\ ret' = [ret EXCEPT ![p] = r]
    /\ pc' = [pc EXCEPT ![p] = "returned"]
    /\ cur' = [cur EXCEPT ![p] = NoCall]

\* a call goes on to its next step
Goto(p, step, c) ==
    /\ cur' = [cur EXCEPT ![p] = c]
    /\ pc' = [pc EXCEPT ![p] = step]
    /\ ret' = [ret EXCEPT ![p] = NoCall]

\* a validation that lets every kind through
ValidateAnyKind(kind) == TRUE

\* DirectAgentDriver._validate, and the same test at the head of list
Validate(kind) == kind \in Capabilities

\* a get whose except clause names the client's exception alone
DriverGetLeaksItemNotFound(p, kind, uuid) ==
    /\ pc[p] = "pass"
    /\ LET c == Call(p, "get", kind, uuid)
       IN  IF ~Validate(kind) THEN Return(p, [c EXCEPT !.status = "TypeError"])
           ELSE IF ~StorageHas(storage[p], kind, uuid)
           THEN Return(p, [c EXCEPT !.status = "ItemNotFound"])
           ELSE \E o \in ClientGet(backend, kind, uuid) :
                  IF o.exc # "" THEN Return(p, [c EXCEPT !.remote = o.exc, !.status = o.exc])
                  ELSE \E sh \in Shapes :
                         Return(p, [c EXCEPT !.remote = "ok", !.status = "ok", !.shape = sh,
                                        !.fields = storage[p][<<kind, uuid>>],
                                        !.res = <<PrepareResResponse(sh, kind, uuid, o.resp,
                                                      storage[p][<<kind, uuid>>])>>])
    /\ UNCHANGED <<durable, storage, backend, intent, changes>>

\* DirectAgentDriver.get
DriverGet(p, kind, uuid) ==
    /\ pc[p] = "pass"
    /\ LET c == Call(p, "get", kind, uuid)
       IN  IF ~Validate(kind) THEN Return(p, [c EXCEPT !.status = "TypeError"])
           ELSE IF ~StorageHas(storage[p], kind, uuid)
           THEN Return(p, [c EXCEPT !.status = "ResourceNotFound"])
           ELSE \E o \in ClientGet(backend, kind, uuid) :
                  IF o.exc # "" THEN Return(p, [c EXCEPT !.remote = o.exc, !.status = o.exc])
                  ELSE \E sh \in Shapes :
                         Return(p, [c EXCEPT !.remote = "ok", !.status = "ok", !.shape = sh,
                                        !.fields = storage[p][<<kind, uuid>>],
                                        !.res = <<PrepareResResponse(sh, kind, uuid, o.resp,
                                                      storage[p][<<kind, uuid>>])>>])
    /\ UNCHANGED <<durable, storage, backend, intent, changes>>

\* client_resources whose target_fields are the attribute names of the item
ClientResourcesItemFields(sh, capability, storage_items, items) ==
    [u \in {x \in DOMAIN items : sh = "resource" \/ x \in DOMAIN storage_items} |->
        IF sh = "resource" THEN ClientResource(capability, u, items[u])
        ELSE IF sh = "dict"
             THEN ResourceFromValue(TransformKind(capability, items[u]), capability,
                                    DOMAIN items[u])
        ELSE ModelToResource(capability, items[u], DOMAIN items[u])]

\* list's client_resources: what each backend item becomes, by its shape
ClientResources(sh, capability, storage_items, items) ==
    [u \in {x \in DOMAIN items : sh = "resource" \/ x \in DOMAIN storage_items} |->
        IF sh = "resource" THEN ClientResource(capability, u, items[u])
        ELSE IF sh = "dict"
             THEN ResourceFromValue(TransformKind(capability, items[u]), capability,
                                    storage_items[u])
        ELSE ModelToResource(capability, items[u], storage_items[u])]

\* a last loop over the client's items alone
ListedUuidsOfClient(storage_items, client_resources) == DOMAIN client_resources

\* list's last loop: the uuids that go into the result
ListedUuids(storage_items, client_resources) ==
    (DOMAIN storage_items) \cap (DOMAIN client_resources)

\* every order a set can be walked in
Orders(S) == {s \in [1..Cardinality(S) -> S] : \A i, j \in 1..Cardinality(S) : s[i] = s[j] => i = j}

\* DirectAgentDriver.list
DriverList(p, capability) ==
    /\ pc[p] = "pass"
    /\ LET c == [Call(p, "list", capability, "") EXCEPT !.status = "ok"]
           storage_items == StorageList(storage[p], capability)
       IN  IF ~Validate(capability) THEN Return(p, [c EXCEPT !.status = "TypeError"])
           ELSE \/ Return(p, [c EXCEPT !.remote = "Error", !.status = "Error"])
                \/ \E sh \in Shapes :
                     LET client_resources == ClientResources(sh, capability, storage_items,
                                                             ClientList(backend, capability))
                     IN  \E order \in Orders(ListedUuids(storage_items, client_resources)) :
                           Return(p, [c EXCEPT !.remote = "ok", !.shape = sh,
                                          !.res = [i \in DOMAIN order |->
                                                      client_resources[order[i]]]])
    /\ UNCHANGED <<durable, storage, backend, intent, changes>>

\* a create that calls the backend without having written the item
CreateStoreLater(p, kind, uuid, value, orig) ==
    /\ changes < MaxChanges
    /\ Validate(kind)
    /\ Goto(p, "create_remote",
            [Call(p, "create", kind, uuid) EXCEPT !.value = value, !.orig = orig,
                                                   !.fields = DOMAIN value])
    /\ intent' = intent \cup {<<kind, uuid>>}
    /\ changes' = changes + 1
    /\ UNCHANGED <<durable, backend, storage>>

\* DirectAgentDriver.create up to the storage write: validate, target_fields,
\* storage.create(force=True). orig is the value the caller built the resource with.
CreateStore(p, kind, uuid, value, orig) ==
    /\ changes < MaxChanges
    /\ IF ~Validate(kind)
       THEN /\ Return(p, [Call(p, "create", kind, uuid) EXCEPT !.status = "TypeError"])
            /\ UNCHANGED <<storage, intent, changes>>
       ELSE /\ storage' = [storage EXCEPT ![p] =
                            StorageCreate(storage[p], kind, uuid, DOMAIN value, TRUE).store]
            /\ Goto(p, "create_remote",
                    [Call(p, "create", kind, uuid) EXCEPT !.value = value, !.orig = orig,
                                                           !.fields = DOMAIN value])
            /\ intent' = intent \cup {<<kind, uuid>>}
            /\ changes' = changes + 1
    /\ UNCHANGED <<durable, backend>>

\* create called with a resource the caller has just built
DriverCreate(p, kind, uuid, value) ==
    /\ pc[p] = "pass"
    /\ CreateStore(p, kind, uuid, value, value)

\* create called again with the resource a failed create was called with
DriverCreateAgain(p) ==
    /\ pc[p] = "returned"
    /\ ret[p].op = "create"
    /\ ret[p].status \notin {"ok", "TypeError"}
    /\ CreateStore(p, ret[p].kind, ret[p].uuid, ret[p].value, ret[p].orig)

\* a create that takes its item back when the backend refuses the resource
CreateRemoteUndoOnFailure(p) ==
    /\ pc[p] = "create_remote"
    /\ \E o \in ClientCreate(backend, cur[p].kind, cur[p].uuid, cur[p].value) :
         LET c == [cur[p] EXCEPT !.value = o.value, !.touched = (o.backend # backend)]
         IN  /\ backend' = o.backend
             /\ IF o.exc # ""
                THEN /\ Return(p, [c EXCEPT !.remote = o.exc, !.status = o.exc])
                     /\ storage' = [storage EXCEPT ![p] =
                                      StorageDelete(storage[p], c.kind, c.uuid, TRUE).store]
                     /\ UNCHANGED intent
                ELSE /\ \E sh \in Shapes :
                          Return(p, [c EXCEPT !.remote = "ok", !.status = "ok", !.shape = sh,
                                         !.res = <<PrepareResResponse(sh, c.kind, c.uuid, o.resp,
                                                                      c.fields)>>])
                     /\ intent' = intent \ {<<c.kind, c.uuid>>}
                     /\ UNCHANGED storage
    /\ UNCHANGED <<durable, changes>>

\* DirectAgentDriver.create from client.create on
CreateRemote(p) ==
    /\ pc[p] = "create_remote"
    /\ \E o \in ClientCreate(backend, cur[p].kind, cur[p].uuid, cur[p].value) :
         LET c == [cur[p] EXCEPT !.value = o.value, !.touched = (o.backend # backend)]
         IN  /\ backend' = o.backend
             /\ IF o.exc # ""
                THEN /\ Return(p, [c EXCEPT !.remote = o.exc, !.status = o.exc])
                     /\ UNCHANGED intent
                ELSE /\ \E sh \in Shapes :
                          Return(p, [c EXCEPT !.remote = "ok", !.status = "ok", !.shape = sh,
                                         !.res = <<PrepareResResponse(sh, c.kind, c.uuid, o.resp,
                                                                      c.fields)>>])
                     /\ intent' = intent \ {<<c.kind, c.uuid>>}
    /\ UNCHANGED <<durable, storage, changes>>

\* an update that writes the item before it calls the backend
UpdateRemoteStoreFirst(p, kind, uuid, value) ==
    /\ pc[p] = "pass"
    /\ changes < MaxChanges
    /\ Validate(kind)
    /\ \E o \in ClientUpdate(backend, kind, uuid, value) :
         LET c == [Call(p, "update", kind, uuid) EXCEPT !.value = o.value, !.orig = value,
                      !.fields = DOMAIN value, !.touched = (o.backend # backend)]
         IN  /\ backend' = o.backend
             /\ storage' = [storage EXCEPT ![p] = Put(storage[p], <<kind, uuid>>, DOMAIN value)]
             /\ Return(p, [c EXCEPT !.remote = IF o.exc = "" THEN "ok" ELSE o.exc,
                                    !.status = IF o.exc = "" THEN "ok" ELSE o.exc])
    /\ changes' = changes + 1
    /\ UNCHANGED <<durable, intent>>

\* DirectAgentDriver.update up to and with client.update
UpdateRemote(p, kind, uuid, value) ==
    /\ pc[p] = "pass"
    /\ changes < MaxChanges
    /\ IF ~Validate(kind)
       THEN /\ Return(p, [Call(p, "update", kind, uuid) EXCEPT !.status = "TypeError"])
            /\ UNCHANGED <<backend, changes>>
       ELSE \E o \in ClientUpdate(backend, kind, uuid, value) :
              LET c == [Call(p, "update", kind, uuid) EXCEPT !.value = o.value, !.orig = value,
                           !.fields = DOMAIN value, !.touched = (o.backend # backend)]
              IN  /\ backend' = o.backend
                  /\ changes' = changes + 1
                  /\ IF o.exc # ""
                     THEN Return(p, [c EXCEPT !.remote = o.exc, !.status = o.exc])
                     ELSE \E sh \in Shapes :
                            Goto(p, "update_store",
                                 [c EXCEPT !.remote = "ok", !.shape = sh,
                                     !.res = <<PrepareResResponse(sh, kind, uuid, o.resp,
                                                                  DOMAIN value)>>])
    /\ UNCHANGED <<durable, storage, intent>>

\* an update that records the attribute names of the backend's answer
UpdateStoreResponseFields(p) ==
    /\ pc[p] = "update_store"
    /\ LET r == StorageUpdate(storage[p], cur[p].kind, cur[p].uuid, DOMAIN cur[p].res[1].value)
       IN  /\ storage' = [storage EXCEPT ![p] = r.store]
           /\ IF r.exc # "" THEN Return(p, [cur[p] EXCEPT !.status = r.exc, !.res = <<>>])
              ELSE Return(p, [cur[p] EXCEPT !.status = "ok"])
    /\ UNCHANGED <<durable, backend, intent, changes>>

\* DirectAgentDriver.update from storage.update on
UpdateStore(p) ==
    /\ pc[p] = "update_store"
    /\ LET r == StorageUpdate(storage[p], cur[p].kind, cur[p].uuid, cur[p].fields)
       IN  /\ storage' = [storage EXCEPT ![p] = r.store]
           /\ IF r.exc # "" THEN Return(p, [cur[p] EXCEPT !.status = r.exc, !.res = <<>>])
              ELSE Return(p, [cur[p] EXCEPT !.status = "ok"])
    /\ UNCHANGED <<durable, backend, intent, changes>>

\* a delete that returns after the remote delete and leaves the item
DeleteRemoteKeepsItem(p, kind, uuid) ==
    /\ pc[p] = "pass"
    /\ changes < MaxChanges
    /\ Validate(kind)
    /\ \E o \in ClientDelete(backend, kind, uuid) :
         LET c == [Call(p, "delete", kind, uuid) EXCEPT !.touched = (o.backend # backend)]
         IN  /\ backend' = o.backend
             /\ Return(p, [c EXCEPT !.remote = IF o.exc = "" THEN "ok" ELSE o.exc,
                                    !.status = IF o.exc \in {"", "ResourceNotFound"}
                                               THEN "ok" ELSE o.exc])
    /\ changes' = changes + 1
    /\ UNCHANGED <<durable, storage, intent>>

\* a delete that lets the client's ResourceNotFound through
DeleteRemoteRaisesNotFound(p, kind, uuid) ==
    /\ pc[p] = "pass"
    /\ changes < MaxChanges
    /\ Validate(kind)
    /\ \E o \in ClientDelete(backend, kind, uuid) :
         LET c == [Call(p, "delete", kind, uuid) EXCEPT !.touched = (o.backend # backend)]
         IN  /\ backend' = o.backend
             /\ IF o.exc # ""
                THEN Return(p, [c EXCEPT !.remote = o.exc, !.status = o.exc])
                ELSE Goto(p, "delete_store", [c EXCEPT !.remote = "ok"])
    /\ changes' = changes + 1
    /\ UNCHANGED <<durable, storage, intent>>

\* DirectAgentDriver.delete up to and with client.delete
DeleteRemote(p, kind, uuid) ==
    /\ pc[p] = "pass"
    /\ changes < MaxChanges
    /\ IF ~Validate(kind)
       THEN /\ Return(p, [Call(p, "delete", kind, uuid) EXCEPT !.status = "TypeError"])
            /\ UNCHANGED <<backend, changes>>
       ELSE \E o \in ClientDelete(backend, kind, uuid) :
              LET c == [Call(p, "delete", kind, uuid) EXCEPT !.touched = (o.backend # backend)]
              IN  /\ backend' = o.backend
                  /\ changes' = changes + 1
                  /\ IF o.exc \notin {"", "ResourceNotFound"}
                     THEN Return(p, [c EXCEPT !.remote = o.exc, !.status = o.exc])
                     ELSE Goto(p, "delete_store",
                               [c EXCEPT !.remote = IF o.exc = "" THEN "ok" ELSE o.exc])
    /\ UNCHANGED <<durable, storage, intent>>

\* a delete that removes the item without force
DeleteStoreUnforced(p) ==
    /\ pc[p] = "delete_store"
    /\ LET r == StorageDelete(storage[p], cur[p].kind, cur[p].uuid, FALSE)
       IN  /\ storage' = [storage EXCEPT ![p] = r.store]
           /\ Return(p, [cur[p] EXCEPT !.status = IF r.exc # "" THEN r.exc ELSE "ok"])
    /\ intent' = intent \ {<<cur[p].kind, cur[p].uuid>>}
    /\ UNCHANGED <<durable, backend, changes>>

\* DirectAgentDriver.delete from storage.delete(force=True) on
DeleteStore(p) ==
    /\ pc[p] = "delete_store"
    /\ LET r == StorageDelete(storage[p], cur[p].kind, cur[p].uuid, TRUE)
       IN  /\ storage' = [storage EXCEPT ![p] = r.store]
           /\ Return(p, [cur[p] EXCEPT !.status = IF r.exc # "" THEN r.exc ELSE "ok"])
    /\ intent' = intent \ {<<cur[p].kind, cur[p].uuid>>}
    /\ UNCHANGED <<durable, backend, changes>>

\* ------------------------------------------------------ backend-side changes

\* what another party may write into an object: a bookkeeping field, a null name
BackendEdits ==
    { [a \in {"updated_at"} |-> "t"], [a \in {"name"} |-> Null] }

\* A return and the caller's look at it are one moment: the backend's own
\* changes fall before or after it.
Quiet == \A p \in Procs : pc[p] # "returned"

EnvCreate(kind, uuid, value) ==
    /\ Quiet
    /\ changes < MaxChanges
    /\ <<kind, uuid>> \notin DOMAIN backend
    /\ backend' = Put(backend, <<kind, uuid>>, Put(value, "uuid", uuid))
    /\ changes' = changes + 1
    /\ UNCHANGED <<durable, storage, pc, cur, ret, intent>>

EnvModify(kind, uuid, edit) ==
    /\ Quiet
    /\ changes < MaxChanges
    /\ <<kind, uuid>> \in DOMAIN backend
    /\ Merge(backend[<<kind, uuid>>], edit) # backend[<<kind, uuid>>]
    /\ backend' = Put(backend, <<kind, uuid>>, Merge(backend[<<kind, uuid>>], edit))
    /\ changes' = changes + 1
    /\ UNCHANGED <<durable, storage, pc, cur, ret, intent>>

EnvDelete(kind, uuid) ==
    /\ Quiet
    /\ changes < MaxChanges
    /\ <<kind, uuid>> \in DOMAIN backend
    /\ backend' = Remove(backend, <<kind, uuid>>)
    /\ changes' = changes + 1
    /\ UNCHANGED <<durable, storage, pc, cur, ret, intent>>

\* ------------------------------------------------------------ specification

DriverStep(p) ==
    \/ DriverStart(p) /\ UNCHANGED others
    \/ DriverFinalize(p) /\ UNCHANGED others
    \/ Resume(p) /\ UNCHANGED others
    \/ Crash(p) /\ UNCHANGED others
    \/ \E kind \in Kinds, uuid \in Uuids : DriverGet(p, kind, uuid) /\ UNCHANGED others
    \/ \E capability \in Kinds : DriverList(p, capability) /\ UNCHANGED others
    \/ \E kind \in Kinds, uuid \in Uuids, value \in InboundValues : DriverCreate(p, kind, uuid, value) /\ UNCHANGED others
    \/ DriverCreateAgain(p) /\ UNCHANGED others
    \/ CreateRemote(p) /\ UNCHANGED others
    \/ \E kind \in Kinds, uuid \in Uuids, value \in InboundValues : UpdateRemote(p, kind, uuid, value) /\ UNCHANGED others
    \/ UpdateStore(p) /\ UNCHANGED others
    \/ \E kind \in Kinds, uuid \in Uuids : DeleteRemote(p, kind, uuid) /\ UNCHANGED others
    \/ DeleteStore(p) /\ UNCHANGED others

EnvStep ==
    \/ \E kind \in Capabilities, uuid \in Uuids, value \in BackendValues : EnvCreate(kind, uuid, value) /\ UNCHANGED others
    \/ \E kind \in Capabilities, uuid \in Uuids, edit \in BackendEdits : EnvModify(kind, uuid, edit) /\ UNCHANGED others
    \/ \E kind \in Capabilities, uuid \in Uuids : EnvDelete(kind, uuid) /\ UNCHANGED others

Next == (\E p \in Running : DriverStep(p)) \/ EnvStep

Spec == Init /\ [][Next]_vars

\* ------------------------------------------- a list before and after a change

\* the backend's object and the stored fields the two lists start from
HashItems ==
    { [a \in {"name"} |-> "a"],
      [a \in {"name", "size"} |-> "a"],
      [a \in {"name", "size"} |-> IF a = "name" THEN "a" ELSE Null] }
HashFields == {{"name"}, {"name", "size"}}

\* what another party may write into the object between the two lists
HashEdits ==
    { [a \in {k} |-> v] : k \in {"name", "size", "updated_at"}, v \in {"a", "b", Null} }

\* One object u1 of one capability, stored with its fields; p1 is the list
\* before the backend-side changes and p2 the list after them.
InitHash ==
    \E kind \in Capabilities, item \in HashItems, fields \in HashFields :
        /\ backend = [key \in {<<kind, "u1">>} |-> Put(item, "uuid", "u1")]
        /\ durable = [key \in {<<kind, "u1">>} |-> fields]
        /\ storage = [p \in Procs |-> [key \in {<<kind, "u1">>} |-> fields]]
        /\ pc = [p \in Procs |-> "pass"]
        /\ cur = [p \in Procs |-> NoCall]
        /\ ret = [p \in Procs |-> NoCall]
        /\ intent = {}
        /\ changes = 0
        /\ OthersIdle

HashListBefore == \E capability \in Capabilities : DriverList("p1", capability)

\* the caller keeps the first answer, and with it the object as the backend
\* held it then
HashKeep ==
    /\ pc["p1"] = "returned" /\ ret["p1"].op = "list"
    /\ <<ret["p1"].kind, "u1">> \in DOMAIN backend
    /\ pc' = [pc EXCEPT !["p1"] = "kept"]
    /\ ret' = [ret EXCEPT !["p1"].value = backend[<<ret["p1"].kind, "u1">>]]
    /\ UNCHANGED <<durable, storage, backend, cur, intent, changes>>

HashModify(edit) ==
    /\ pc["p1"] = "kept" /\ pc["p2"] = "pass"
    /\ EnvModify(ret["p1"].kind, "u1", edit)

HashListAfter ==
    /\ pc["p1"] = "kept"
    /\ DriverList("p2", ret["p1"].kind)

NextHash ==
    \/ HashListBefore /\ UNCHANGED others
    \/ HashKeep /\ UNCHANGED others
    \/ \E edit \in HashEdits : HashModify(edit) /\ UNCHANGED others
    \/ HashListAfter /\ UNCHANGED others

SpecHash == InitHash /\ [][NextHash]_vars

\* ------------------------------------------------- two passes on one store

\* the capability the two passes work on
OverlapKinds == {"k1"}

\* start(), with the scheduler's note of whether another pass is under way
OverlapStart(p) ==
    /\ DriverStart(p)
    /\ sched' = [sched EXCEPT !.overlap = sched.overlap \/ \E q \in Procs \ {p} : pc[q] # "off"]
    /\ UNCHANGED <<poll, tracked, applied>>

\* Nothing keeps a second process from starting a pass on the same store
\* while the first is inside its own.
OverlapStep(p) ==
    \/ OverlapStart(p)
    \/ Resume(p) /\ UNCHANGED others
    \/ \E kind \in OverlapKinds, uuid \in Uuids, value \in InboundValues : DriverCreate(p, kind, uuid, value) /\ UNCHANGED others
    \/ CreateRemote(p) /\ UNCHANGED others
    \/ \E kind \in OverlapKinds, uuid \in Uuids, value \in InboundValues : UpdateRemote(p, kind, uuid, value) /\ UNCHANGED others
    \/ UpdateStore(p) /\ UNCHANGED others
    \/ \E kind \in OverlapKinds, uuid \in Uuids : DeleteRemote(p, kind, uuid) /\ UNCHANGED others
    \/ DeleteStore(p) /\ UNCHANGED others
    \/ DriverFinalize(p) /\ UNCHANGED others

NextOverlap == \E p \in Procs : OverlapStep(p)

SpecOverlap == Init /\ [][NextOverlap]_vars

\* ------------------------------------------------ the scheduler's passes

\* the capability the scheduler reconciles
RedriveKind == "k1"

\* what the scheduler may want the backend to hold: uuid -> value
RedriveDesired ==
    { [u \in {"u1"} |-> [a \in {"name"} |-> "a"]],
      [u \in {"u1", "u2"} |-> [a \in {"name"} |-> "a"]] }

\* what a crash or a failure inside an earlier pass may have left of one
\* object: in the durable store, and on the backend
RedriveFields == {{"name"}, {"name", "size"}}
RedriveObjects ==
    { [a \in {"name"} |-> "a"],
      [a \in {"name", "size"} |-> IF a = "name" THEN "b" ELSE "a"] }

\* a listed resource has the content the scheduler wants
HasContent(r, value) == \A a \in DOMAIN value : a \in DOMAIN r.value /\ r.value[a] = value[a]

\* the operations a pass owes after list answered res: create what is wanted
\* and not listed, update what is listed with other content, delete what is
\* listed and not wanted
Plan(res, desired) ==
    LET listed == {res[i].uuid : i \in DOMAIN res}
        of(u) == res[CHOOSE i \in DOMAIN res : res[i].uuid = u]
    IN  {[op |-> "create", uuid |-> u] : u \in (DOMAIN desired) \ listed}
        \cup {[op |-> "update", uuid |-> u] :
                 u \in {x \in (DOMAIN desired) \cap listed : ~HasContent(of(x), desired[x])}}
        \cup {[op |-> "delete", uuid |-> u] : u \in listed \ (DOMAIN desired)}

\* Any state a crash or a backend failure may have left: the process is gone
\* with its working copy, the durable store and the backend hold what they
\* hold.
InitRedrive ==
    \E desired \in RedriveDesired,
       stored \in SUBSET Uuids, remote \in SUBSET Uuids,
       fields \in [Uuids -> RedriveFields], objects \in [Uuids -> RedriveObjects] :
        /\ durable = [key \in {RedriveKind} \X stored |-> fields[key[2]]]
        /\ backend = [key \in {RedriveKind} \X remote |-> Put(objects[key[2]], "uuid", key[2])]
        /\ storage = [p \in Procs |-> EmptyStore]
        /\ pc = [p \in Procs |-> "off"]
        /\ cur = [p \in Procs |-> NoCall]
        /\ ret = [p \in Procs |-> NoCall]
        /\ intent = {}
        /\ changes = 0
        /\ sched = [NoSched EXCEPT !.phase = "idle", !.desired = desired]
        /\ poll = NoPoll
        /\ tracked = NoTracked /\ applied = NoApplied

\* between two passes the count of the pass's operations starts again
RedriveTurn ==
    /\ sched.phase = "idle" /\ changes > 0
    /\ changes' = 0
    /\ UNCHANGED <<durable, storage, backend, pc, cur, ret, intent, sched, poll, tracked, applied>>

RedriveStart(p) ==
    /\ sched.phase = "idle" /\ changes = 0
    /\ DriverStart(p)
    /\ sched' = [sched EXCEPT !.phase = "list"]
    /\ UNCHANGED <<poll, tracked, applied>>

RedriveList(p) ==
    /\ sched.phase = "list"
    /\ DriverList(p, RedriveKind)
    /\ sched' = [sched EXCEPT !.phase = "plan"]
    /\ UNCHANGED <<poll, tracked, applied>>

\* the scheduler reads list's answer: a list that raised leaves nothing to do
RedrivePlan(p) ==
    /\ sched.phase = "plan"
    /\ Resume(p)
    /\ sched' = [sched EXCEPT !.phase = "work",
                              !.todo = IF ret[p].status = "ok"
                                       THEN Plan(ret[p].res, sched.desired) ELSE {}]
    /\ UNCHANGED <<poll, tracked, applied>>

\* the scheduler goes on after start, create, update or delete returned; after
\* one that raised it may drop the rest of the pass
RedriveResume(p) ==
    /\ sched.phase # "plan"
    /\ Resume(p)
    /\ \E todo \in {sched.todo} \cup (IF ret[p].status = "ok" THEN {} ELSE {{}}) :
          sched' = [sched EXCEPT !.todo = todo]
    /\ UNCHANGED <<poll, tracked, applied>>

RedriveCreate(p, uuid) ==
    /\ sched.phase = "work" /\ [op |-> "create", uuid |-> uuid] \in sched.todo
    /\ DriverCreate(p, RedriveKind, uuid, sched.desired[uuid])
    /\ sched' = [sched EXCEPT !.todo = @ \ {[op |-> "create", uuid |-> uuid]}]
    /\ UNCHANGED <<poll, tracked, applied>>

RedriveUpdate(p, uuid) ==
    /\ sched.phase = "work" /\ [op |-> "update", uuid |-> uuid] \in sched.todo
    /\ UpdateRemote(p, RedriveKind, uuid, sched.desired[uuid])
    /\ sched' = [sched EXCEPT !.todo = @ \ {[op |-> "update", uuid |-> uuid]}]
    /\ UNCHANGED <<poll, tracked, applied>>

RedriveDelete(p, uuid) ==
    /\ sched.phase = "work" /\ [op |-> "delete", uuid |-> uuid] \in sched.todo
    /\ DeleteRemote(p, RedriveKind, uuid)
    /\ sched' = [sched EXCEPT !.todo = @ \ {[op |-> "delete", uuid |-> uuid]}]
    /\ UNCHANGED <<poll, tracked, applied>>

RedriveFinalize(p) ==
    /\ sched.phase = "work" /\ sched.todo = {}
    /\ DriverFinalize(p)
    /\ sched' = [sched EXCEPT !.phase = "idle"]
    /\ UNCHANGED <<poll, tracked, applied>>

RedriveStep(p) ==
    \/ RedriveStart(p)
    \/ RedriveList(p)
    \/ RedrivePlan(p)
    \/ RedriveResume(p)
    \/ \E uuid \in Uuids : RedriveCreate(p, uuid)
    \/ CreateRemote(p) /\ UNCHANGED others
    \/ \E uuid \in Uuids : RedriveUpdate(p, uuid)
    \/ UpdateStore(p) /\ UNCHANGED others
    \/ \E uuid \in Uuids : RedriveDelete(p, uuid)
    \/ DeleteStore(p) /\ UNCHANGED others
    \/ RedriveFinalize(p)

NextRedrive == RedriveTurn \/ \E p \in Running : RedriveStep(p)

\* a remote call that the backend answered, with whatever answer
Answered(p) == ~(pc'[p] = "returned" /\ ret'[p].status = "Error")

\* The scheduler keeps running passes, and the backend does not fail for
\* ever: a call that is made again and again is answered again and again.
FairRedrive ==
    /\ WF_vars(NextRedrive)
    /\ \A p \in Running :
         /\ SF_vars(RedriveList(p) /\ Answered(p))
         /\ SF_vars(CreateRemote(p) /\ UNCHANGED others /\ Answered(p))
         /\ SF_vars((\E uuid \in Uuids : RedriveUpdate(p, uuid)) /\ Answered(p))
         /\ SF_vars((\E uuid \in Uuids : RedriveDelete(p, uuid)) /\ Answered(p))

SpecRedrive == InitRedrive /\ [][NextRedrive]_vars /\ FairRedrive

\* ------------------------------------------------------ the delta payload

\* polls of all agents together
MaxPolls == 3

\* what each agent declares
DeclaredCapabilities == {"foo"}
DeclaredFacts == {"bar"}

\* the target resources the controller may hold, in the order it lists them
PayloadUuids == <<"r1", "r2">>
PayloadNames == {"a", "b"}
PayloadStamps == {"t0", "t1"}

\* what a target resource may be written with: the first in every way, the
\* others under one name and stamp only
PayloadWrites(i) ==
    IF i = 1 THEN Agents \X PayloadNames \X PayloadStamps
    ELSE Agents \X {"a"} \X {"t0"}

\* the fields of a stored view that never go to the agent
StrippedFields == {"agent", "master", "node", "tracked_at", "master_hash", "master_full_hash"}

\* the stored view of a target resource
TargetView(uuid, agent, name, stamp) ==
    [f \in {"uuid", "kind", "name", "agent", "tracked_at"} |->
        CASE f = "uuid" -> uuid
          [] f = "kind" -> "foo"
          [] f = "name" -> name
          [] f = "agent" -> agent
          [] f = "tracked_at" -> stamp]

\* a payload whose views keep their stamp
AssemblePayloadKeepsStamp(assigned, agent) ==
    [capabilities |->
        [k \in DeclaredCapabilities |->
            [resources |->
                LET mine == SelectSeq(PayloadUuids,
                                LAMBDA u : /\ u \in DOMAIN assigned
                                           /\ assigned[u]["agent"] = agent
                                           /\ assigned[u]["kind"] = k)
                IN  [i \in DOMAIN mine |-> Without(assigned[mine[i]], StrippedFields \ {"tracked_at"})]]],
     facts |-> [k \in DeclaredFacts \cup DeclaredCapabilities |-> [resources |-> <<>>]]]

\* the payload assembled for an agent: per declared capability the stripped
\* views of the target resources assigned to it; per declared fact and
\* capability the facts known of it (none here)
AssemblePayload(assigned, agent) ==
    [capabilities |->
        [k \in DeclaredCapabilities |->
            [resources |->
                LET mine == SelectSeq(PayloadUuids,
                                LAMBDA u : /\ u \in DOMAIN assigned
                                           /\ assigned[u]["agent"] = agent
                                           /\ assigned[u]["kind"] = k)
                IN  [i \in DOMAIN mine |-> Without(assigned[mine[i]], StrippedFields)]]],
     facts |-> [k \in DeclaredFacts \cup DeclaredCapabilities |-> [resources |-> <<>>]]]

\* a digest that is blank for a payload without resources
PayloadHashBlankWhenEmpty(payload) ==
    IF \A k \in DOMAIN payload.capabilities : payload.capabilities[k].resources = <<>>
    THEN NoHash
    ELSE <<"sha256", payload.capabilities, payload.facts>>

\* the digest of an assembled payload (no collisions)
PayloadHash(payload) == <<"sha256", payload.capabilities, payload.facts>>

\* a get_payload that gates on nothing
GetPayloadAlwaysFull(assigned, agent, version, hash) ==
    LET payload == AssemblePayload(assigned, agent)
    IN  [capabilities |-> payload.capabilities, facts |-> payload.facts,
         hash |-> PayloadHash(payload), asked |-> hash]

\* a get_payload that takes any hash the agent holds for a match
GetPayloadAnyHashMatches(assigned, agent, version, hash) ==
    LET payload == AssemblePayload(assigned, agent)
    IN  IF hash # NoHash
        THEN [capabilities |-> EmptyValue, facts |-> EmptyValue,
              hash |-> hash, asked |-> hash]
        ELSE [capabilities |-> payload.capabilities, facts |-> payload.facts,
              hash |-> PayloadHash(payload), asked |-> hash]

\* a get_payload that answers a stale hash with the capabilities alone
GetPayloadPerField(assigned, agent, version, hash) ==
    LET payload == AssemblePayload(assigned, agent)
    IN  IF hash = PayloadHash(payload)
        THEN [capabilities |-> EmptyValue, facts |-> EmptyValue,
              hash |-> PayloadHash(payload), asked |-> hash]
        ELSE [capabilities |-> payload.capabilities,
              facts |-> IF hash = NoHash THEN payload.facts ELSE EmptyValue,
              hash |-> PayloadHash(payload), asked |-> hash]

\* get_payload(version, hash): nothing but the hash when the agent's hash is
\* the digest of what is assembled now, else all of it
GetPayload(assigned, agent, version, hash) ==
    LET payload == AssemblePayload(assigned, agent)
    IN  IF hash = PayloadHash(payload)
        THEN [capabilities |-> EmptyValue, facts |-> EmptyValue,
              hash |-> PayloadHash(payload), asked |-> hash]
        ELSE [capabilities |-> payload.capabilities, facts |-> payload.facts,
              hash |-> PayloadHash(payload), asked |-> hash]

\* the controller assigns, changes or re-stamps a target resource
PollAssign(uuid, agent, name, stamp) ==
    /\ poll.assigned # Put(poll.assigned, uuid, TargetView(uuid, agent, name, stamp))
    /\ poll' = [poll EXCEPT !.assigned = Put(@, uuid, TargetView(uuid, agent, name, stamp)),
                            !.fresh = [a \in Agents |-> FALSE]]
    /\ UNCHANGED <<durable, storage, backend, pc, cur, ret, intent, changes, sched, tracked, applied>>

\* the controller drops a target resource
PollUnassign(uuid) ==
    /\ uuid \in DOMAIN poll.assigned
    /\ poll' = [poll EXCEPT !.assigned = Remove(@, uuid),
                            !.fresh = [a \in Agents |-> FALSE]]
    /\ UNCHANGED <<durable, storage, backend, pc, cur, ret, intent, changes, sched, tracked, applied>>

\* a poll that re-stamps the polling agent's resources in the table
PollGetStampsTable(agent, version, hash) ==
    /\ poll.polls["a1"] + poll.polls["a2"] < MaxPolls
    /\ hash \in {NoHash, poll.resp[agent].hash}
    /\ poll' = [poll EXCEPT !.resp[agent] = GetPayload(poll.assigned, agent, version, hash),
                            !.polls[agent] = @ + 1,
                            !.fresh[agent] = TRUE,
                            !.assigned = [u \in DOMAIN @ |->
                                IF @[u]["agent"] = agent
                                THEN [@[u] EXCEPT !["tracked_at"] = "t1"] ELSE @[u]]]
    /\ UNCHANGED <<durable, storage, backend, pc, cur, ret, intent, changes, sched, tracked, applied>>

\* an agent polls: with no hash, or with the hash of its last answer (which
\* is stale once the table has changed)
PollGet(agent, version, hash) ==
    /\ poll.polls["a1"] + poll.polls["a2"] < MaxPolls
    /\ hash \in {NoHash, poll.resp[agent].hash}
    /\ poll' = [poll EXCEPT !.resp[agent] = GetPayload(poll.assigned, agent, version, hash),
                            !.polls[agent] = @ + 1,
                            !.fresh[agent] = TRUE]
    /\ UNCHANGED <<durable, storage, backend, pc, cur, ret, intent, changes, sched, tracked, applied>>

\* every hash an agent can hold in this model
PayloadHashes == {NoHash} \cup {poll.resp[a].hash : a \in Agents}

NextPayload ==
    \/ \E i \in DOMAIN PayloadUuids : \E w \in PayloadWrites(i) :
          PollAssign(PayloadUuids[i], w[1], w[2], w[3])
    \/ \E i \in DOMAIN PayloadUuids : PollUnassign(PayloadUuids[i])
    \/ \E agent \in Agents, version \in {0, 1}, hash \in PayloadHashes :
          PollGet(agent, version, hash)

SpecPayload == Init /\ [][NextPayload]_vars

\* ----------------------------------------------------------------- claims

Returned(p, op) == pc[p] = "returned" /\ ret[p].op = op
ResUuids(r) == {r.res[i].uuid : i \in DOMAIN r.res}
OnBackend(kind, uuid) == <<kind, uuid>> \in DOMAIN backend

\* C1: whatever shape the backend's items have, list(capability) returns no
\* resource whose uuid has no entry for that capability in the working store.
C1_ListOnlyStored ==
    \A p \in Procs :
        Returned(p, "list") =>
            \A u \in ResUuids(ret[p]) : StorageHas(storage[p], ret[p].kind, u)

\* list has answered typed resources; the backend lists a uuid that the store
\* holds for the other capability only, and it is not in the result
C1_Witness ==
    \E p \in Procs, u \in Uuids, k \in Capabilities :
        /\ Returned(p, "list") /\ ret[p].remote = "ok" /\ ret[p].shape = "resource"
        /\ k # ret[p].kind
        /\ OnBackend(ret[p].kind, u)
        /\ ~StorageHas(storage[p], ret[p].kind, u)
        /\ StorageHas(storage[p], k, u)
        /\ u \notin ResUuids(ret[p])

\* C2: after create has written the item without the remote create having
\* succeeded, while the backend holds no such object, get does not succeed (it
\* raises ResourceNotFound whenever the backend answers) and list does not
\* return the uuid, whether or not the working store holds the entry.
C2_FailedCreateNotFound ==
    \A p \in Procs :
        /\ (/\ Returned(p, "get")
            /\ <<ret[p].kind, ret[p].uuid>> \in intent
            /\ ~OnBackend(ret[p].kind, ret[p].uuid))
           => /\ ret[p].status # "ok"
              /\ ret[p].res = <<>>
              /\ ret[p].status # "Error" => ret[p].status = "ResourceNotFound"
        /\ Returned(p, "list") =>
              \A u \in ResUuids(ret[p]) :
                  ~(<<ret[p].kind, u>> \in intent /\ ~OnBackend(ret[p].kind, u))

\* get has asked the backend about a uuid whose create failed, found the local
\* entry, and raised ResourceNotFound
C2_Witness ==
    \E p \in Procs :
        /\ Returned(p, "get")
        /\ <<ret[p].kind, ret[p].uuid>> \in intent
        /\ StorageHas(storage[p], ret[p].kind, ret[p].uuid)
        /\ ret[p].remote = "ResourceNotFound"
        /\ ret[p].status = "ResourceNotFound"

\* C3: when the remote update fails (ResourceNotFound or any other error),
\* the working store is what it was when update was called.
C3_FailedUpdateKeepsStore ==
    \A p \in Procs :
        (Returned(p, "update") /\ ret[p].remote \in {"ResourceNotFound", "Error"})
            => storage[p] = ret[p].store0

\* a failed update of a uuid whose entry holds other fields than the ones the
\* update came with
C3_Witness ==
    \E p \in Procs :
        /\ Returned(p, "update") /\ ret[p].remote \in {"ResourceNotFound", "Error"}
        /\ Entry(ret[p].store0, ret[p].kind, ret[p].uuid) \notin {{}, {ret[p].fields}}

\* C4: delete of a resource the backend no longer holds returns without error,
\* leaves no store entry and changes nothing on the backend; when there was no
\* entry either (a repeated delete) the working store is left as it was.
C4_DeleteGoneIsSuccess ==
    \A p \in Procs :
        (Returned(p, "delete") /\ ret[p].remote = "ResourceNotFound")
            => /\ ret[p].status = "ok"
               /\ ~ret[p].touched
               /\ storage[p] = Remove(ret[p].store0, <<ret[p].kind, ret[p].uuid>>)
               /\ (~StorageHas(ret[p].store0, ret[p].kind, ret[p].uuid)
                     => storage[p] = ret[p].store0)

\* a second delete of the same resource: nothing left on either side, and after
\* all changes of the run went into the two deletes and what they removed
C4_Witness ==
    \E p \in Procs :
        /\ Returned(p, "delete") /\ ret[p].remote = "ResourceNotFound"
        /\ ret[p].status = "ok"
        /\ ~StorageHas(ret[p].store0, ret[p].kind, ret[p].uuid)
        /\ changes = MaxChanges

\* C5 as it stands: whatever the remote delete did, once delete has returned
\* or raised the store holds no entry for the resource.
C5_DeleteAlwaysForgets ==
    \A p \in Procs :
        (Returned(p, "delete") /\ Validate(ret[p].kind))
            => ~StorageHas(storage[p], ret[p].kind, ret[p].uuid)

\* C5 amended: after a remote delete that succeeded or raised
\* ResourceNotFound, delete returns and the store holds no entry; after any
\* other failure delete raises it and the store is what it was.
C5_DeleteForgetsUnlessError ==
    \A p \in Procs :
        (Returned(p, "delete") /\ Validate(ret[p].kind))
            => /\ ret[p].remote \in {"ok", "ResourceNotFound"}
                    => /\ ret[p].status = "ok"
                       /\ ~StorageHas(storage[p], ret[p].kind, ret[p].uuid)
               /\ ret[p].remote \notin {"ok", "ResourceNotFound"}
                    => /\ ret[p].status = ret[p].remote
                       /\ storage[p] = ret[p].store0

\* the remote delete of a resource with a store entry succeeded, and the entry
\* is gone
C5_Witness ==
    \E p \in Procs :
        /\ Returned(p, "delete") /\ ret[p].remote = "ok" /\ ret[p].touched
        /\ StorageHas(ret[p].store0, ret[p].kind, ret[p].uuid)
        /\ ~StorageHas(storage[p], ret[p].kind, ret[p].uuid)

\* C6: whenever create is about to call, or has called, the backend, the
\* working store holds the item with create's target_fields, whatever it held
\* before.
C6_CreateStoresFirst ==
    \A p \in Procs :
        /\ pc[p] = "create_remote"
              => Entry(storage[p], cur[p].kind, cur[p].uuid) = {cur[p].fields}
        /\ (Returned(p, "create") /\ ret[p].remote # "")
              => Entry(storage[p], ret[p].kind, ret[p].uuid) = {ret[p].fields}

\* create is about to call the backend and has overwritten an entry that held
\* other fields
C6_Witness ==
    \E p \in Procs :
        /\ pc[p] = "create_remote"
        /\ Entry(cur[p].store0, cur[p].kind, cur[p].uuid) \notin {{}, {cur[p].fields}}
        /\ Entry(storage[p], cur[p].kind, cur[p].uuid) = {cur[p].fields}

C8_UpdateRemoteFirst ==
    \A p \in Procs :
        /\ pc[p] = "update_store"
              => cur[p].remote = "ok" /\ storage[p] = cur[p].store0
        /\ (Returned(p, "update") /\ storage[p] # ret[p].store0)
              => ret[p].remote = "ok" /\ ret[p].status = "ok"
        /\ (Returned(p, "update") /\ ret[p].status = "ok")
              => /\ ret[p].remote = "ok"
                 /\ Entry(storage[p], ret[p].kind, ret[p].uuid) = {DOMAIN ret[p].orig}

\* a successful update has replaced an entry that held other fields
C8_Witness ==
    \E p \in Procs :
        /\ Returned(p, "update") /\ ret[p].status = "ok"
        /\ Entry(ret[p].store0, ret[p].kind, ret[p].uuid) \notin {{}, {DOMAIN ret[p].orig}}
        /\ Entry(storage[p], ret[p].kind, ret[p].uuid) = {DOMAIN ret[p].orig}

\* C9: the item create writes, and the target_fields of the resource it
\* returns (from a raw mapping or a model), are the attribute names of the
\* value the caller built the resource with, on the first call and on every
\* call made again with that resource after a failed one.
C9_CreateFieldsAreCallersNames ==
    \A p \in Procs :
        /\ pc[p] = "create_remote"
              => Entry(storage[p], cur[p].kind, cur[p].uuid) = {DOMAIN cur[p].orig}
        /\ (Returned(p, "create") /\ ret[p].status = "ok" /\ ret[p].shape # "resource")
              => /\ Entry(storage[p], ret[p].kind, ret[p].uuid) = {DOMAIN ret[p].orig}
                 /\ ret[p].res[1].target_fields = DOMAIN ret[p].orig

\* C10: a list that the backend answered returns one resource of the
\* capability for each uuid that the working store holds for it and the
\* backend lists for it, nothing else, and leaves the working store, the
\* durable backing and the backend as they were.
C10_ListIsIntersection ==
    [][\A p \in Procs :
         (pc[p] = "pass" /\ pc'[p] = "returned" /\ ret'[p].op = "list" /\ ret'[p].remote = "ok")
            => LET r == ret'[p]
                   both == {u \in Uuids : StorageHas(storage[p], r.kind, u) /\ OnBackend(r.kind, u)}
               IN  /\ ResUuids(r) = both
                   /\ Len(r.res) = Cardinality(both)
                   /\ \A i \in DOMAIN r.res : r.res[i].kind = r.kind
                   /\ storage' = storage
                   /\ durable' = durable
                   /\ backend' = backend]_vars

\* list has returned one resource while the store holds a second uuid of the
\* capability that the backend does not list
C10_Witness ==
    \E p \in Procs, u \in Uuids :
        /\ Returned(p, "list") /\ ret[p].remote = "ok"
        /\ Len(ret[p].res) = 1
        /\ StorageHas(storage[p], ret[p].kind, u)
        /\ ~OnBackend(ret[p].kind, u)
        /\ u \notin ResUuids(ret[p])

\* C11: when the backend answers raw mappings or models, every resource that
\* get or list returns carries the target_fields the working store holds for
\* its uuid; a backend-side change leaves the working store and the durable
\* backing as they were.
C11_TargetFieldsFromStore ==
    [][/\ \A p \in Procs :
            (/\ pc[p] = "pass" /\ pc'[p] = "returned"
             /\ ret'[p].op \in {"get", "list"} /\ ret'[p].status = "ok"
             /\ ret'[p].shape # "resource")
               => \A i \in DOMAIN ret'[p].res :
                     LET r == ret'[p].res[i]
                     IN  /\ StorageHas(storage[p], r.kind, r.uuid)
                         /\ r.target_fields = storage[p][<<r.kind, r.uuid>>]
       /\ (backend' # backend /\ pc' = pc) => (storage' = storage /\ durable' = durable)]_vars

\* list has answered from raw mappings or models after another party stamped
\* an object with a field of its own: the resource carries the stored fields,
\* which are not the attribute names of the backend's object
C11_Witness ==
    \E p \in Procs :
        /\ Returned(p, "list") /\ ret[p].status = "ok" /\ ret[p].shape # "resource"
        /\ \E i \in DOMAIN ret[p].res :
              LET r == ret[p].res[i]
              IN  /\ OnBackend(r.kind, r.uuid)
                  /\ "updated_at" \in DOMAIN backend[<<r.kind, r.uuid>>]
                  /\ r.target_fields = storage[p][<<r.kind, r.uuid>>]
                  /\ "updated_at" \notin r.target_fields

\* the two lists were answered in the same shape, from raw mappings or models,
\* and each returned the object
TwoLists ==
    /\ pc["p1"] = "kept" /\ Returned("p2", "list")
    /\ ret["p1"].status = "ok" /\ ret["p2"].status = "ok"
    /\ ret["p1"].shape = ret["p2"].shape /\ ret["p2"].shape # "resource"
    /\ Len(ret["p1"].res) = 1 /\ Len(ret["p2"].res) = 1
ItemBefore == ret["p1"].value
ItemAfter == backend[<<ret["p2"].kind, "u1">>]
\* the attributes another party gave a value they did not have
ChangedAttrs ==
    {a \in DOMAIN ItemAfter : a \notin DOMAIN ItemBefore \/ ItemBefore[a] # ItemAfter[a]}
\* a changed attribute that never reaches the resource's value: left out of the
\* model's view, or added as null for a kind whose transformer drops nulls
HiddenChange(a) ==
    \/ ret["p2"].shape = "model" /\ a \in ResourceIgnoreFields
    \/ /\ ret["p2"].kind \in DOMAIN TransformerMap
       /\ ItemAfter[a] = Null /\ a \notin DOMAIN ItemBefore

\* C12 as it stands: backend-side changes to attributes outside target_fields
\* leave hash as it was and change full_hash; a change to the value of an
\* attribute in target_fields changes both.
C12_FullHashAlwaysChanges ==
    TwoLists =>
        LET r0 == ret["p1"].res[1]
            r1 == ret["p2"].res[1]
        IN  /\ (ChangedAttrs # {} /\ ChangedAttrs \cap r1.target_fields = {})
                  => /\ ResourceHash(r1) = ResourceHash(r0)
                     /\ ResourceFullHash(r1) # ResourceFullHash(r0)
            /\ (\E a \in ChangedAttrs \cap r1.target_fields : a \in DOMAIN ItemBefore)
                  => /\ ResourceHash(r1) # ResourceHash(r0)
                     /\ ResourceFullHash(r1) # ResourceFullHash(r0)

\* C12 amended: backend-side changes to attributes outside target_fields leave
\* hash as it was, and change full_hash exactly when one of them reaches the
\* resource's value; a change to the value of an attribute in target_fields
\* changes both.
C12_HashOverTargetFields ==
    TwoLists =>
        LET r0 == ret["p1"].res[1]
            r1 == ret["p2"].res[1]
        IN  /\ (ChangedAttrs # {} /\ ChangedAttrs \cap r1.target_fields = {})
                  => /\ ResourceHash(r1) = ResourceHash(r0)
                     /\ (ResourceFullHash(r1) # ResourceFullHash(r0))
                          <=> (\E a \in ChangedAttrs : ~HiddenChange(a))
            /\ (\E a \in ChangedAttrs \cap r1.target_fields : a \in DOMAIN ItemBefore)
                  => /\ ResourceHash(r1) # ResourceHash(r0)
                     /\ ResourceFullHash(r1) # ResourceFullHash(r0)

\* the backend added a null attribute outside target_fields to an object of a
\* kind whose transformer drops nulls: hash and full_hash are both as before
C12_Witness ==
    /\ TwoLists
    /\ ChangedAttrs # {} /\ ChangedAttrs \cap ret["p2"].res[1].target_fields = {}
    /\ \A a \in ChangedAttrs : HiddenChange(a)
    /\ ret["p2"].shape = "dict"
    /\ ResourceHash(ret["p2"].res[1]) = ResourceHash(ret["p1"].res[1])
    /\ ResourceFullHash(ret["p2"].res[1]) = ResourceFullHash(ret["p1"].res[1])

\* C13: get of a supported kind raises ResourceNotFound when the working
\* store has no entry for the uuid, and, when the backend answers, when the
\* backend has no such object; it returns a resource only when the store has
\* the entry and the backend has the object.
C13_GetNeedsBothSides ==
    \A p \in Procs :
        (Returned(p, "get") /\ Validate(ret[p].kind))
            => /\ ~StorageHas(storage[p], ret[p].kind, ret[p].uuid)
                    => ret[p].status = "ResourceNotFound" /\ ret[p].remote = ""
               /\ (~OnBackend(ret[p].kind, ret[p].uuid) /\ ret[p].remote # "Error")
                    => ret[p].status = "ResourceNotFound"
               /\ ret[p].status # "ok" => ret[p].res = <<>>
               /\ ret[p].status = "ok"
                    => /\ StorageHas(storage[p], ret[p].kind, ret[p].uuid)
                       /\ OnBackend(ret[p].kind, ret[p].uuid)
                       /\ Len(ret[p].res) = 1
                       /\ ret[p].res[1].uuid = ret[p].uuid

\* get of an object the backend holds and the store has no entry for
C13_Witness ==
    \E p \in Procs :
        /\ Returned(p, "get") /\ Validate(ret[p].kind)
        /\ OnBackend(ret[p].kind, ret[p].uuid)
        /\ ~StorageHas(storage[p], ret[p].kind, ret[p].uuid)
        /\ ret[p].status = "ResourceNotFound"

\* C14: get, list, create, update and delete of a kind outside the
\* capabilities end at once in the unsupported-capability TypeError: no call
\* to the backend was made, and the working store, the durable backing and
\* the backend are what they were.
C14_UnsupportedKindFailsFast ==
    [][\A p \in Procs :
         (/\ pc[p] = "pass" /\ pc'[p] \notin {"pass", "off"}
          /\ IF pc'[p] = "returned" THEN ret'[p].kind \in Kinds \ Capabilities
             ELSE cur'[p].kind \in Kinds \ Capabilities)
            => /\ pc'[p] = "returned"
               /\ ret'[p].op \in {"get", "list", "create", "update", "delete"}
               /\ ret'[p].status = "TypeError"
               /\ ret'[p].remote = "" /\ ~ret'[p].touched /\ ret'[p].res = <<>>
               /\ storage' = storage /\ durable' = durable /\ backend' = backend]_vars

\* a create of an unsupported kind has failed while the store and the backend
\* hold the same uuid for a supported kind
C14_Witness ==
    \E p \in Procs, k \in Capabilities :
        /\ Returned(p, "create") /\ ret[p].kind \notin Capabilities
        /\ ret[p].status = "TypeError"
        /\ StorageHas(storage[p], k, ret[p].uuid)
        /\ OnBackend(k, ret[p].uuid)

\* C15: no call of get, list, create, update or delete ends in the store's
\* own ItemNotFound or ItemAlreadyExists.
C15_NoStoreErrorLeaks ==
    \A p \in Procs :
        (pc[p] = "returned" /\ ret[p].op \in {"get", "list", "create", "update", "delete"})
            => ret[p].status \notin {"ItemNotFound", "ItemAlreadyExists"}

\* C16: when the backend answers create with a conflict, create raises
\* ResourceAlreadyExists and returns no resource, the backend's object is
\* untouched, and the store holds the item create wrote: the attribute names
\* of the rejected value, whatever the entry was before.
C16_ConflictKeepsItem ==
    \A p \in Procs :
        (Returned(p, "create") /\ ret[p].remote = "ResourceAlreadyExists")
            => /\ ret[p].status = "ResourceAlreadyExists"
               /\ ret[p].res = <<>>
               /\ ~ret[p].touched
               /\ OnBackend(ret[p].kind, ret[p].uuid)
               /\ Entry(storage[p], ret[p].kind, ret[p].uuid) = {ret[p].fields}
               /\ storage[p] = Put(ret[p].store0, <<ret[p].kind, ret[p].uuid>>, ret[p].fields)

\* a create refused with a conflict has replaced an entry that held other
\* fields
C16_Witness ==
    \E p \in Procs :
        /\ Returned(p, "create") /\ ret[p].remote = "ResourceAlreadyExists"
        /\ Entry(ret[p].store0, ret[p].kind, ret[p].uuid) \notin {{}, {ret[p].fields}}
        /\ Entry(storage[p], ret[p].kind, ret[p].uuid) = {ret[p].fields}

\* C17: start() is the first step of a pass and leaves the working copy equal
\* to the durable backing; finalize() is the last step of a pass and leaves
\* the durable backing equal to the working copy; no other step (create,
\* update, delete, get, list, a crash, a backend-side change) changes the
\* durable backing.
C17_DurableOnlyAtFinalize ==
    [][/\ \A p \in Procs :
            /\ (ret'[p].op = "start" /\ ret[p].op # "start")
                  => /\ pc[p] = "off" /\ pc'[p] = "returned"
                     /\ storage'[p] = durable /\ durable' = durable
            /\ (ret'[p].op = "finalize" /\ pc[p] # "off")
                  => /\ pc[p] = "pass" /\ pc'[p] = "off"
                     /\ durable' = storage[p] /\ storage' = storage
       /\ durable' # durable
            => \E p \in Procs : pc[p] = "pass" /\ pc'[p] = "off" /\ ret'[p].op = "finalize"]_vars

\* a pass has ended in finalize() after create wrote an item: the durable
\* backing holds it
C17_Witness ==
    \E p \in Procs :
        /\ pc[p] = "off" /\ ret[p].op = "finalize"
        /\ durable # EmptyStore /\ durable = storage[p]

\* every pass has ended in finalize()
AllPassesEnded == \A p \in Procs : pc[p] = "off"
\* the backend holds an object a pass created, and the durable store has no
\* item for it
LostItem == \E key \in DOMAIN backend : key \notin DOMAIN durable
\* the durable store holds an item for an object a pass deleted
DeletedItemKept == \E key \in DOMAIN durable : key \notin DOMAIN backend /\ key \notin intent

\* C18: when the passes ran one after the other, then once they have ended
\* the durable store has an item for every object the passes created and none
\* for an object they deleted; a pass that began while another was under way
\* can leave the durable store without an item one of them wrote.
C18_SequentialPassesKeepItems ==
    (AllPassesEnded /\ ~sched.overlap) => (~LostItem /\ ~DeletedItemKept)

\* two overlapping passes have ended, and the item that one of them wrote for
\* the object it created is not in the durable store
C18_Witness ==
    /\ AllPassesEnded /\ sched.overlap
    /\ LostItem
    /\ \A p \in Procs : ret[p].op = "finalize"

\* list has answered the scheduler
ListAnswered == Returned("p1", "list") /\ ret["p1"].status = "ok"
\* the answer is one resource for each wanted uuid, with the wanted content,
\* and nothing else
ListIsDesired ==
    /\ ResUuids(ret["p1"]) = DOMAIN sched.desired
    /\ Len(ret["p1"].res) = Cardinality(DOMAIN sched.desired)
    /\ \A i \in DOMAIN ret["p1"].res :
          HasContent(ret["p1"].res[i], sched.desired[ret["p1"].res[i].uuid])

\* C19: from any state a crash or a backend failure left, with a scheduler
\* that keeps running passes and a backend that does not fail for ever, list
\* keeps answering, and from some pass on every answer of list is the wanted
\* resources with the wanted content.
C19_Redrivable ==
    /\ []<>ListAnswered
    /\ <>[](ListAnswered => ListIsDesired)

\* list answers the two wanted resources after a pass had to bring an object
\* with other content into line
C19_Witness ==
    /\ ListAnswered /\ ListIsDesired
    /\ Cardinality(DOMAIN sched.desired) = 2
    /\ \E u \in DOMAIN sched.desired :
          /\ OnBackend(RedriveKind, u)
          /\ "size" \in DOMAIN backend[<<RedriveKind, u>>]

\* C20: when an agent polls with the hash its last poll returned and the
\* controller's table has not changed since that poll, the answer has no
\* capabilities and no facts and carries the same hash.
C20_SameHashEmptyPayload ==
    [][\A a \in Agents :
         (/\ poll'.polls[a] = poll.polls[a] + 1
          /\ poll.polls[a] > 0 /\ poll.fresh[a]
          /\ poll'.resp[a].asked = poll.resp[a].hash)
            => /\ poll'.resp[a].capabilities = EmptyValue
               /\ poll'.resp[a].facts = EmptyValue
               /\ poll'.resp[a].hash = poll.resp[a].hash]_vars

\* an agent with a resource assigned has polled twice over an unchanged
\* table, the second time with the hash of the first answer, and got the
\* empty answer
C20_Witness ==
    \E a \in Agents :
        /\ poll.polls[a] = 2 /\ poll.fresh[a]
        /\ poll.resp[a].asked = poll.resp[a].hash
        /\ poll.resp[a].capabilities = EmptyValue
        /\ Len(AssemblePayload(poll.assigned, a).capabilities["foo"].resources) > 0

\* ------------------------------------------------- hashing of ordered dicts

\* A dict as Python holds it: its items in insertion order, each a key with a
\* value that is a string <<"s", text>> or a dict <<"d", items>>.
Leaves == {<<"s", "a">>, <<"s", "b">>}

\* the dicts with keys among ks (each at most once, in any order) and values
\* among vs
DictsOver(ks, vs) ==
    UNION {{items \in [1..Cardinality(K) -> K \X vs] :
                \A i, j \in 1..Cardinality(K) : items[i][1] = items[j][1] => i = j}
           : K \in SUBSET ks}

InnerDicts == DictsOver({"name", "uuid"}, Leaves)
OuterDicts == DictsOver({"name", "size"}, Leaves \cup {<<"d", inner>> : inner \in InnerDicts})

\* json.dumps(value, separators=(",", ":")) without sort_keys: the items as
\* they were inserted
RECURSIVE json_dumps_unsorted(_)
json_dumps_unsorted(items) ==
    [i \in DOMAIN items |->
        <<items[i][1],
          IF items[i][2][1] = "d" THEN <<"d", json_dumps_unsorted(items[i][2][2])>>
          ELSE items[i][2]>>]

\* json.dumps(value, separators=(",", ":"), sort_keys=True): the items by
\* key, and so within every dict among the values
RECURSIVE json_dumps(_)
json_dumps(items) ==
    LET keys == SelectSeq(SortedKeys, LAMBDA k : \E i \in DOMAIN items : items[i][1] = k)
        at(k) == items[CHOOSE i \in DOMAIN items : items[i][1] = k][2]
    IN  [i \in DOMAIN keys |->
            <<keys[i],
              IF at(keys[i])[1] = "d" THEN <<"d", json_dumps(at(keys[i])[2])>>
              ELSE at(keys[i])>>]

\* utils.calculate_hash on a dict: the sha256 digest (no collisions) of the
\* dumped text
calculate_hash(value) == <<"sha256", json_dumps(value)>>

\* two dicts hold the same keys with the same values, dicts among the values
\* compared the same way
RECURSIVE SameMapping(_, _)
SameMapping(A, B) ==
    /\ {A[i][1] : i \in DOMAIN A} = {B[i][1] : i \in DOMAIN B}
    /\ \A i \in DOMAIN A, j \in DOMAIN B :
          A[i][1] = B[j][1] =>
             IF A[i][2][1] = "d" /\ B[j][2][1] = "d"
             THEN SameMapping(A[i][2][2], B[j][2][2])
             ELSE A[i][2] = B[j][2]

\* two dicts are at hand
InitCanon ==
    /\ durable = EmptyStore
    /\ storage = [p \in Procs |-> EmptyStore]
    /\ backend = EmptyStore
    /\ pc = [p \in Procs |-> "off"]
    /\ cur = [p \in Procs |-> NoCall]
    /\ ret = [p \in Procs |-> NoCall]
    /\ intent = {}
    /\ changes = 0
    /\ sched = NoSched /\ poll = NoPoll /\ tracked = NoTracked
    /\ \E A \in OuterDicts, B \in OuterDicts :
          applied = [op |-> "dicts", A |-> A, B |-> B]

\* calculate_hash is called on each of them
HashBoth ==
    /\ applied.op = "dicts"
    /\ applied' = [op |-> "calculate_hash", A |-> applied.A, B |-> applied.B,
                   hashA |-> calculate_hash(applied.A),
                   hashB |-> calculate_hash(applied.B)]
    /\ UNCHANGED <<durable, storage, backend, pc, cur, ret, intent, changes, sched, poll, tracked>>

NextCanon == HashBoth

SpecCanon == InitCanon /\ [][NextCanon]_vars

\* ------------------------------------------------ the transformer on its own

\* the transformers and the views transform is applied to: a view holds any
\* of three attributes, each a text, an empty text or null
Transformers ==
    [ignore_null_attributes : BOOLEAN, all : BOOLEAN, attributes : SUBSET {"name", "size"}]
TransformViews == UNION {[K -> {"a", "", Null}] : K \in SUBSET {"name", "size", "uuid"}}

\* a transformer and a view are at hand
InitTransform ==
    /\ durable = EmptyStore
    /\ storage = [p \in Procs |-> EmptyStore]
    /\ backend = EmptyStore
    /\ pc = [p \in Procs |-> "off"]
    /\ cur = [p \in Procs |-> NoCall]
    /\ ret = [p \in Procs |-> NoCall]
    /\ intent = {}
    /\ changes = 0
    /\ sched = NoSched /\ poll = NoPoll /\ tracked = NoTracked
    /\ \E t \in Transformers, view \in TransformViews :
          applied = [op |-> "view", t |-> t, arg |-> view, view |-> view]

\* transform(view): arg is the view as it was passed, view what the caller's
\* dict holds after the call (transform builds its result, or hands the dict
\* back, and writes to nothing)
TransformOnce ==
    /\ applied.op = "view"
    /\ applied' = [op |-> "transform", t |-> applied.t, arg |-> applied.arg,
                   view |-> applied.view,
                   out |-> Transform(applied.t, applied.view)]
    /\ UNCHANGED <<durable, storage, backend, pc, cur, ret, intent, changes, sched, poll, tracked>>

\* transform(transform(view))
TransformTwice ==
    /\ applied.op = "transform"
    /\ applied' = [op |-> "twice", t |-> applied.t, arg |-> applied.arg,
                   view |-> applied.view, out |-> applied.out,
                   again |-> Transform(applied.t, applied.out)]
    /\ UNCHANGED <<durable, storage, backend, pc, cur, ret, intent, changes, sched, poll, tracked>>

NextTransform == TransformOnce \/ TransformTwice

SpecTransform == InitTransform /\ [][NextTransform]_vars

\* ------------------------------------------- the REST client's create alone

\* the values create is called with: without a project, with the client's
\* own, with another, with a null and with an empty one
CreateValues ==
    {[a \in {"name"} |-> "a"]} \cup
    {[a \in {"name", "project_id"} |-> IF a = "name" THEN "a" ELSE p] :
        p \in {ProjectId, "other", Null, ""}}

\* the collections the backend may hold when create is called
CreateBackends ==
    {[key \in K |-> Put(CHOOSE v \in BackendValues : TRUE, "uuid", key[2])] :
        K \in SUBSET (Capabilities \X Uuids)}

\* a resource is at hand and the backend holds some collection
InitCreate ==
    /\ durable = EmptyStore
    /\ storage = [p \in Procs |-> EmptyStore]
    /\ backend \in CreateBackends
    /\ pc = [p \in Procs |-> "off"]
    /\ cur = [p \in Procs |-> NoCall]
    /\ ret = [p \in Procs |-> NoCall]
    /\ intent = {}
    /\ changes = 0
    /\ sched = NoSched /\ poll = NoPoll /\ tracked = NoTracked
    /\ \E kind \in Capabilities, uuid \in Uuids, value \in CreateValues :
          applied = [op |-> "resource", kind |-> kind, uuid |-> uuid, value |-> value]

\* GCRestApiBackendClient.create(resource), from the injection of the uuid to
\* the answer or the exception; before is the collection as the call found it
RestCreate ==
    /\ applied.op = "resource"
    /\ \E o \in ClientCreate(backend, applied.kind, applied.uuid, applied.value) :
          /\ backend' = o.backend
          /\ applied' = [op |-> "create", kind |-> applied.kind, uuid |-> applied.uuid,
                         value |-> applied.value, before |-> backend, exc |-> o.exc]
    /\ UNCHANGED <<durable, storage, pc, cur, ret, intent, changes, sched, poll, tracked>>

NextCreate == RestCreate

SpecCreate == InitCreate /\ [][NextCreate]_vars

\* ------------------------------------------- the REST client's update alone

\* GCRestApiBackendClient.update(resource) of the resource at hand, its value
\* any mapping that holds a name; before is the collection as the call found
\* it, passed the value as the caller built it, value what the caller's
\* resource holds after the call
RestUpdate ==
    /\ applied.op = "resource"
    /\ \E K \in SUBSET ({"size"} \cup ReadOnlyFields) :
       \E o \in ClientUpdate(backend, applied.kind, applied.uuid,
                              [a \in K \cup {"name"} |-> "b"]) :
          /\ backend' = o.backend
          /\ applied' = [op |-> "update", kind |-> applied.kind, uuid |-> applied.uuid,
                         passed |-> [a \in K \cup {"name"} |-> "b"],
                         value |-> o.value, before |-> backend, exc |-> o.exc]
    /\ UNCHANGED <<durable, storage, pc, cur, ret, intent, changes, sched, poll, tracked>>

SpecUpdate == InitCreate /\ [][RestUpdate]_vars

\* ------------------------------------------------- encryption of the API

\* the latest time of the clock
MaxNow == 2

ENCRYPTED_JSON_CONTENT_TYPE == "application/x-genesis-agent-chacha20-poly1305-encrypted"

\* the nonces generate_nonce may come up with, and no nonce yet (None)
Nonces == {"x", "y"}
NoNonce == ""

\* encryption required only once the time is past
IsRequiresEncryptionOnlyAfter(now, until) == now > until

\* EncryptionInformation.is_requires_encryption at a time now for a key
\* whose encryption_disabled_until is until
IsRequiresEncryption(now, until) == now >= until

\* a response_nonce that is generated anew at every read
ResponseNonceNeverKept(info, n) ==
    [info EXCEPT !.response_nonce = n, !.generated = Append(@, n)]

\* EncryptionInformation.response_nonce: the nonce kept from an earlier read,
\* or n, generated now and kept
ResponseNonce(info, n) ==
    IF info.response_nonce # NoNonce THEN info
    ELSE [info EXCEPT !.response_nonce = n, !.generated = Append(@, n)]

\* A request comes in. node is the X-Genesis-Node-UUID header ("" when it is
\* missing, and no key is registered for n2), ctype the Content-Type, until
\* the encryption_disabled_until of the node's key; asked_m and asked_c are
\* what is_requires_encryption answered the middleware and the controller.
Receive(node, ctype, until, nonce, now) ==
    /\ applied.op = ""
    /\ applied' = [op |-> "request", node |-> node, ctype |-> ctype, until |-> until,
                   request_nonce |-> nonce, now |-> now,
                   response_nonce |-> NoNonce, generated |-> <<>>,
                   status |-> "", headers |-> EmptyValue, packed |-> NoNonce,
                   asked_m |-> "", asked_c |-> ""]
    /\ UNCHANGED <<durable, storage, backend, pc, cur, ret, intent, changes, sched, poll, tracked>>

\* time passes while the request is served
Tick ==
    /\ applied.op \in {"request", "application"}
    /\ applied.now < MaxNow
    /\ applied' = [applied EXCEPT !.now = @ + 1]
    /\ UNCHANGED <<durable, storage, backend, pc, cur, ret, intent, changes, sched, poll, tracked>>

\* SdkContextMiddleware._get_response: 400 for a request that is not of the
\* encrypted content type when encryption is required, else on to the
\* application; the look-up of the key raises when the header is missing or
\* names a node without a key
GetResponse ==
    /\ applied.op = "request"
    /\ applied' =
         IF applied.node \in {"", "n2"}
         THEN [applied EXCEPT !.op = "raised", !.status = "error"]
         ELSE IF /\ IsRequiresEncryption(applied.now, applied.until)
                 /\ applied.ctype # ENCRYPTED_JSON_CONTENT_TYPE
         THEN [applied EXCEPT !.op = "answered", !.status = "400", !.asked_m = "yes"]
         ELSE [applied EXCEPT !.op = "application",
                  !.asked_m = IF IsRequiresEncryption(applied.now, applied.until)
                              THEN "yes" ELSE "no"]
    /\ UNCHANGED <<durable, storage, backend, pc, cur, ret, intent, changes, sched, poll, tracked>>

\* process_result of a BaseSdk controller, that is _apply_encryption_headers
\* on the empty headers of the response
ApplyEncryptionHeaders ==
    /\ applied.op = "application" /\ applied.asked_c = ""
    /\ IF ~IsRequiresEncryption(applied.now, applied.until)
       THEN applied' = [applied EXCEPT !.asked_c = "no", !.status = "200"]
       ELSE \E n \in Nonces :
              LET info == ResponseNonce(applied, n)
              IN  applied' = [info EXCEPT
                     !.asked_c = "yes", !.status = "200",
                     !.headers =
                        [h \in {"Content-Type", "X-Genesis-Nonce", "X-Genesis-Node-UUID"} |->
                            CASE h = "Content-Type" ->
                                    IF applied.ctype # "" THEN applied.ctype
                                    ELSE ENCRYPTED_JSON_CONTENT_TYPE
                              [] h = "X-Genesis-Nonce" -> <<"b64", info.response_nonce>>
                              [] h = "X-Genesis-Node-UUID" -> applied.node]]
    /\ UNCHANGED <<durable, storage, backend, pc, cur, ret, intent, changes, sched, poll, tracked>>

\* GenesisAgentEncryptedJsonPacker.pack, the packer of the encrypted content
\* type: the body is encrypted under the response nonce
Pack ==
    /\ applied.op = "application" /\ applied.packed = NoNonce
    /\ applied.ctype = ENCRYPTED_JSON_CONTENT_TYPE
    /\ \E n \in Nonces :
          LET info == ResponseNonce(applied, n)
          IN  applied' = [info EXCEPT !.packed = info.response_nonce]
    /\ UNCHANGED <<durable, storage, backend, pc, cur, ret, intent, changes, sched, poll, tracked>>

NextEncryption ==
    \/ \E node \in {"n1", "n2", ""},
          ctype \in {ENCRYPTED_JSON_CONTENT_TYPE, "application/json", ""},
          until \in 0..MaxNow, nonce \in Nonces, now \in 0..MaxNow :
          Receive(node, ctype, until, nonce, now)
    \/ Tick
    \/ GetResponse
    \/ ApplyEncryptionHeaders
    \/ Pack

SpecEncryption == Init /\ [][NextEncryption]_vars

\* ------------------------------------------------------------- GService

\* the calls of _iteration looked at
MaxIterations == 2

\* GService(services): the services as they were given, each one once; calls
\* is the log of what was called on which service, n the calls of _iteration
\* that have returned, raised whether a call has ended in an exception
GServiceInit(services) ==
    /\ applied.op = ""
    /\ \A i, j \in DOMAIN services : services[i] = services[j] => i = j
    /\ applied' = [op |-> "gservice", services |-> services, calls |-> <<>>,
                   n |-> 0, raised |-> FALSE]
    /\ UNCHANGED <<durable, storage, backend, pc, cur, ret, intent, changes, sched, poll, tracked>>

\* an _iteration that goes through the services from the last to the first
GIterationBackwards ==
    /\ applied.op = "setup" /\ ~applied.raised /\ applied.n < MaxIterations
    /\ \E k \in 0..Len(applied.services) :
          applied' = [applied EXCEPT
             !.calls = @ \o [i \in 1..Len(applied.services) - k |->
                               <<"_loop_iteration",
                                 applied.services[Len(applied.services) + 1 - i]>>],
             !.n = IF k = 0 THEN @ + 1 ELSE @,
             !.raised = k > 0]
    /\ UNCHANGED <<durable, storage, backend, pc, cur, ret, intent, changes, sched, poll, tracked>>

\* GService._setup: _setup of every service in turn; the _setup of a service
\* may raise, and the k services after it are then not set up
GSetup ==
    /\ applied.op = "gservice"
    /\ \E k \in 0..Len(applied.services) :
          applied' = [applied EXCEPT
             !.op = "setup",
             !.calls = @ \o [i \in 1..Len(applied.services) - k |->
                               <<"_setup", applied.services[i]>>],
             !.raised = k > 0]
    /\ UNCHANGED <<durable, storage, backend, pc, cur, ret, intent, changes, sched, poll, tracked>>

\* GService._iteration: _loop_iteration of every service in turn, likewise
GIteration ==
    /\ applied.op = "setup" /\ ~applied.raised /\ applied.n < MaxIterations
    /\ \E k \in 0..Len(applied.services) :
          applied' = [applied EXCEPT
             !.calls = @ \o [i \in 1..Len(applied.services) - k |->
                               <<"_loop_iteration", applied.services[i]>>],
             !.n = IF k = 0 THEN @ + 1 ELSE @,
             !.raised = k > 0]
    /\ UNCHANGED <<durable, storage, backend, pc, cur, ret, intent, changes, sched, poll, tracked>>

SpecGService ==
    Init /\ [][\/ \E services \in UNION {[1..m -> {"s1", "s2", "s3"}] : m \in 0..3} :
                    GServiceInit(services)
               \/ GSetup
               \/ GIteration]_vars

\* ------------------------------------------------------- gservice main

\* main(): services and disable_auto_opts are the two options of the
\* configuration, classes what the loaded class of each name offers (the
\* classmethods it defines, and whether get_svc_config_opts returns options).
\* built is the list handed to GService, each instance with the way it was
\* made; a class without svc_from_config makes main end in AttributeError.
Main(services, disable_auto_opts, classes) ==
    /\ applied.op = ""
    /\ \A i, j \in DOMAIN services : services[i] = services[j] => i = j
    /\ LET manual(s) == s \in disable_auto_opts
           raised == \E i \in DOMAIN services :
                        /\ manual(services[i])
                        /\ "svc_from_config" \notin classes[services[i]].methods
           atonce == SelectSeq(services, LAMBDA s : manual(s) \/ ~classes[s].opts)
           later == SelectSeq(services, LAMBDA s : ~manual(s) /\ classes[s].opts)
       IN  applied' =
             [op |-> "main", services |-> services,
              disable_auto_opts |-> disable_auto_opts, classes |-> classes,
              raised |-> IF raised THEN "AttributeError" ELSE "",
              registered |-> IF raised THEN {} ELSE {later[i] : i \in DOMAIN later},
              built |-> IF raised THEN <<>>
                        ELSE [i \in DOMAIN atonce |->
                                 IF manual(atonce[i])
                                 THEN <<atonce[i], "svc_from_config", "config_file">>
                                 ELSE <<atonce[i], "constructor", "">>]
                             \o [i \in DOMAIN later |-> <<later[i], "constructor", "options">>],
              started |-> ~raised]
    /\ UNCHANGED <<durable, storage, backend, pc, cur, ret, intent, changes, sched, poll, tracked>>

SpecMain ==
    Init /\ [][\E services \in UNION {[1..m -> {"A", "B"}] : m \in 0..2},
                  disable_auto_opts \in SUBSET {"A", "B"},
                  classes \in [{"A", "B"} ->
                                 [methods : SUBSET {"from_config", "svc_from_config"},
                                  opts : BOOLEAN]] :
                  Main(services, disable_auto_opts, classes)]_vars

\* ------------------------------------------------------ swapping directories

\* _swap_dirs_mac_compatible(dir1, dir2) up to its first move. at1 and at2
\* are what is at the two paths: "" for nothing, "file" for a file, else the
\* content of the directory there; same is whether the two paths have the
\* same parent. fs is the file system as it is, before as the call found it.
SwapDirsMacCompatible(at1, at2, same) ==
    /\ applied.op = ""
    /\ LET before == [dir1 |-> at1, dir2 |-> at2, tmp_a |-> ""]
           call == [op |-> "returned", before |-> before, fs |-> before,
                    same |-> same, raised |-> ""]
       IN  applied' =
             IF "file" \in {at1, at2} THEN [call EXCEPT !.op = "raised", !.raised = "ValueError"]
             ELSE IF at1 = "" /\ at2 = "" THEN call
             ELSE IF at2 = "" THEN [call EXCEPT !.fs = [before EXCEPT !.dir1 = "", !.dir2 = at1]]
             ELSE IF at1 = "" THEN [call EXCEPT !.fs = [before EXCEPT !.dir2 = "", !.dir1 = at2]]
             ELSE IF ~same THEN [call EXCEPT !.op = "raised", !.raised = "ValueError"]
             ELSE [call EXCEPT !.op = "move1"]
    /\ UNCHANGED <<durable, storage, backend, pc, cur, ret, intent, changes, sched, poll, tracked>>

\* moves that end with the first directory back where it was
SwapMoveBack(interrupt) ==
    /\ applied.op \in {"move1", "move2", "move3"}
    /\ interrupt => applied.op # "move1"
    /\ applied' =
         IF interrupt THEN [applied EXCEPT !.op = "interrupted"]
         ELSE IF applied.op = "move1"
         THEN [applied EXCEPT !.op = "move2", !.fs.tmp_a = applied.fs.dir1, !.fs.dir1 = ""]
         ELSE IF applied.op = "move2"
         THEN [applied EXCEPT !.op = "move3", !.fs.dir1 = applied.fs.dir2, !.fs.dir2 = ""]
         ELSE [applied EXCEPT !.op = "returned", !.fs.dir1 = applied.fs.tmp_a,
                              !.fs.dir2 = applied.fs.dir1, !.fs.tmp_a = ""]
    /\ UNCHANGED <<durable, storage, backend, pc, cur, ret, intent, changes, sched, poll, tracked>>

\* the next of the three moves (dir1 to the temporary name, dir2 to dir1, the
\* temporary name to dir2), or an interruption between two of them
SwapMove(interrupt) ==
    /\ applied.op \in {"move1", "move2", "move3"}
    /\ interrupt => applied.op # "move1"
    /\ applied' =
         IF interrupt THEN [applied EXCEPT !.op = "interrupted"]
         ELSE IF applied.op = "move1"
         THEN [applied EXCEPT !.op = "move2", !.fs.tmp_a = applied.fs.dir1, !.fs.dir1 = ""]
         ELSE IF applied.op = "move2"
         THEN [applied EXCEPT !.op = "move3", !.fs.dir1 = applied.fs.dir2, !.fs.dir2 = ""]
         ELSE [applied EXCEPT !.op = "returned", !.fs.dir2 = applied.fs.tmp_a, !.fs.tmp_a = ""]
    /\ UNCHANGED <<durable, storage, backend, pc, cur, ret, intent, changes, sched, poll, tracked>>

SpecSwap ==
    Init /\ [][\/ \E at1, at2 \in {"", "file", "w", "x", "y", "z"}, same \in BOOLEAN :
                    SwapDirsMacCompatible(at1, at2, same)
               \/ \E interrupt \in BOOLEAN : SwapMove(interrupt)]_vars

\* ------------------------------------------------------ foreign keys

\* ON DELETE CASCADE stopping at the rows named: the rows that refer to them
\* are kept
CascadedNotFollowed(gone, targets) == gone

\* the target resources a delete takes away: the ones named and, through
\* "master" ... ON DELETE CASCADE, every one whose master is taken away
RECURSIVE Cascaded(_, _)
Cascaded(gone, targets) ==
    LET more == gone \cup {u \in DOMAIN targets : targets[u].master \in gone}
    IN  IF more = gone THEN gone ELSE Cascaded(more, targets)

\* gone keeps the target resources the last statement took away.
\* INSERT of one row into ua_agents, ua_target_resources (r gives res_uuid,
\* agent and master) or ua_tracked_resources (r gives watcher and target).
\* A primary key is not taken twice, a referenced res_uuid is unique and a
\* reference that is not NULL names a row that is there (a master may be
\* the row itself).
DbInsert(table, key, r) ==
    /\ applied.op \in {"", "db"}
    /\ LET db == IF applied.op = "db" THEN applied
                 ELSE [op |-> "db", agents |-> {}, targets |-> EmptyValue, rows |-> EmptyValue,
                       gone |-> {}]
       IN  \/ /\ table = "ua_agents"
              /\ key \notin db.agents
              /\ applied' = [db EXCEPT !.agents = db.agents \cup {key}, !.gone = {}]
           \/ /\ table = "ua_target_resources"
              /\ key \notin DOMAIN db.targets
              /\ \A u \in DOMAIN db.targets : db.targets[u].res_uuid # r.res_uuid
              /\ r.agent \in db.agents \cup {Null}
              /\ r.master \in DOMAIN db.targets \cup {Null, key}
              /\ applied' = [db EXCEPT !.gone = {}, !.targets =
                     [u \in DOMAIN db.targets \cup {key} |->
                        IF u = key THEN r ELSE db.targets[u]]]
           \/ /\ table = "ua_tracked_resources"
              /\ key \notin DOMAIN db.rows
              /\ \A ref \in {r.watcher, r.target} :
                    ref = Null \/ \E u \in DOMAIN db.targets : db.targets[u].res_uuid = ref
              /\ applied' = [db EXCEPT !.gone = {}, !.rows =
                     [t \in DOMAIN db.rows \cup {key} |->
                        IF t = key THEN r ELSE db.rows[t]]]
    /\ UNCHANGED <<durable, storage, backend, pc, cur, ret, intent, changes, sched, poll, tracked>>

\* DELETE of one row, with what ON DELETE CASCADE takes away with it
DbDelete(table, key) ==
    /\ applied.op = "db"
    /\ \/ table = "ua_agents" /\ key \in applied.agents
       \/ table = "ua_target_resources" /\ key \in DOMAIN applied.targets
       \/ table = "ua_tracked_resources" /\ key \in DOMAIN applied.rows
    /\ LET named == IF table = "ua_agents"
                    THEN {u \in DOMAIN applied.targets : applied.targets[u].agent = key}
                    ELSE IF table = "ua_target_resources" THEN {key} ELSE {}
           gone == Cascaded(named, applied.targets)
           refs == {applied.targets[u].res_uuid : u \in gone}
           left == {t \in DOMAIN applied.rows :
                      /\ ~(table = "ua_tracked_resources" /\ t = key)
                      /\ applied.rows[t].watcher \notin refs
                      /\ applied.rows[t].target \notin refs}
       IN  applied' = [applied EXCEPT
              !.agents = IF table = "ua_agents" THEN applied.agents \ {key} ELSE applied.agents,
              !.targets = [u \in DOMAIN applied.targets \ gone |-> applied.targets[u]],
              !.rows = [t \in left |-> applied.rows[t]],
              !.gone = gone]
    /\ UNCHANGED <<durable, storage, backend, pc, cur, ret, intent, changes, sched, poll, tracked>>

SpecCascade ==
    Init /\ [][\/ \E a \in {"a1", "a2"} : DbInsert("ua_agents", a, EmptyValue)
               \/ \E u \in {"r1", "r2", "r3"} :
                    \E r \in [res_uuid : {"p1", "p2", "p3"}, agent : {Null, "a1", "a2"},
                              master : {Null, "r1", "r2", "r3"}] :
                       DbInsert("ua_target_resources", u, r)
               \/ \E t \in {"t1"} :
                    \E r \in [watcher : {Null, "p1", "p2", "p3"}, target : {Null, "p1", "p2", "p3"}] :
                       DbInsert("ua_tracked_resources", t, r)
               \/ \E table \in {"ua_agents", "ua_target_resources", "ua_tracked_resources"} :
                    \E key \in {"a1", "a2", "r1", "r2", "r3", "t1"} :
                       DbDelete(table, key)]_vars

\* ------------------------------------------------------ tracked resources

\* the target resources and the tracked rows the tables may hold
TargetUuids == {"r1", "r2"}
TrackedUuids == {"t1", "t2"}
\* what a target resource holds in its target fields, and in the others
TargetContents == {"a", "b"} \X {"a", "b"}

\* the hash and full_hash columns of a target resource with a content
TargetRow(content) ==
    [hash |-> <<"sha256", content[1]>>, full_hash |-> <<"sha256", content[1], content[2]>>]

\* the hash columns of a tracked row nobody has filled yet (DEFAULT '')
BlankSnapshot == [hash |-> <<>>, full_hash |-> <<>>]

\* a view that compares hash where it should compare full_hash
OutdatedTrackedHashView(tr) ==
    {t \in DOMAIN tr.rows :
        /\ tr.rows[t].target \in DOMAIN tr.targets
        /\ tr.rows[t].hash # tr.targets[tr.rows[t].target].hash}

\* ua_outdated_tracked_full_hash_instances_view: the tracked rows joined to
\* their target resource whose full_hash is not the target's
OutdatedTrackedFullHashView(tr) ==
    {t \in DOMAIN tr.rows :
        /\ tr.rows[t].target \in DOMAIN tr.targets
        /\ tr.rows[t].full_hash # tr.targets[tr.rows[t].target].full_hash}

\* a target resource is written: inserted, or updated with another content
TargetWrite(u, content) ==
    /\ tracked.targets # Put(tracked.targets, u, TargetRow(content))
    /\ tracked' = [tracked EXCEPT !.targets = Put(@, u, TargetRow(content))]
    /\ UNCHANGED <<durable, storage, backend, pc, cur, ret, intent, changes, sched, poll, applied>>

\* a target resource is deleted, and with it (ON DELETE CASCADE) the tracked
\* rows it watches or is watched by
TargetDelete(u) ==
    /\ u \in DOMAIN tracked.targets
    /\ tracked' = [targets |-> Remove(tracked.targets, u),
                   rows |-> [t \in {x \in DOMAIN tracked.rows :
                                        /\ tracked.rows[x].target # u
                                        /\ tracked.rows[x].watcher # u}
                               |-> tracked.rows[t]]]
    /\ UNCHANGED <<durable, storage, backend, pc, cur, ret, intent, changes, sched, poll, applied>>

\* a watcher starts to track a target: the row is blank, or holds the
\* target's hashes of now
TrackedInsert(t, watcher, target, blank) ==
    /\ t \notin DOMAIN tracked.rows
    /\ watcher # target
    /\ {watcher, target} \subseteq DOMAIN tracked.targets
    /\ tracked' = [tracked EXCEPT !.rows = Put(@, t,
                      [watcher |-> watcher, target |-> target,
                       hash |-> IF blank THEN BlankSnapshot.hash
                                ELSE tracked.targets[target].hash,
                       full_hash |-> IF blank THEN BlankSnapshot.full_hash
                                     ELSE tracked.targets[target].full_hash])]
    /\ UNCHANGED <<durable, storage, backend, pc, cur, ret, intent, changes, sched, poll, applied>>

\* the snapshot of a tracked row is refreshed to its target's hashes
TrackedRefresh(t) ==
    /\ t \in DOMAIN tracked.rows
    /\ t \in OutdatedTrackedFullHashView(tracked)
    /\ tracked' = [tracked EXCEPT
                      !.rows[t].hash = tracked.targets[tracked.rows[t].target].hash,
                      !.rows[t].full_hash = tracked.targets[tracked.rows[t].target].full_hash]
    /\ UNCHANGED <<durable, storage, backend, pc, cur, ret, intent, changes, sched, poll, applied>>

NextTracked ==
    \/ \E u \in TargetUuids, content \in TargetContents : TargetWrite(u, content)
    \/ \E u \in TargetUuids : TargetDelete(u)
    \/ \E t \in TrackedUuids, watcher \in TargetUuids, target \in TargetUuids,
          blank \in BOOLEAN : TrackedInsert(t, watcher, target, blank)
    \/ \E t \in TrackedUuids : TrackedRefresh(t)

SpecTracked == Init /\ [][NextTracked]_vars

\* ------------------------------------------------------------------ claims

\* the agent polls in this step
Polls(a) == poll'.polls[a] = poll.polls[a] + 1

\* C21: when what is assembled for an agent is no longer what its last poll
\* was answered from (a resource of the agent was added, removed or changed
\* in a field that is not stripped), a poll with the hash of that answer gets
\* the whole current payload and a hash that differs from the one supplied.
C21_ChangedPayloadIsFull ==
    [][\A a \in Agents :
         LET payload == AssemblePayload(poll.assigned, a)
         IN  (/\ Polls(a)
              /\ poll.polls[a] > 0
              /\ poll'.resp[a].asked = poll.resp[a].hash
              /\ poll.resp[a].hash # PayloadHash(payload))
                => /\ poll'.resp[a].capabilities = payload.capabilities
                   /\ poll'.resp[a].facts = payload.facts
                   /\ poll'.resp[a].hash # poll'.resp[a].asked]_vars

\* an agent has polled twice, its resources changed in between, the second
\* poll carried the first answer's hash and was answered with a resource
C21_Witness ==
    \E a \in Agents :
        /\ poll.polls[a] = 2 /\ poll.fresh[a]
        /\ poll.resp[a].asked # NoHash
        /\ poll.resp[a].asked # poll.resp[a].hash
        /\ poll.resp[a].capabilities # EmptyValue
        /\ Len(poll.resp[a].capabilities["foo"].resources) > 0

\* C22: an answer of get_payload carries the digest of what is assembled for
\* the agent at that moment; its capabilities and facts are both empty when
\* the supplied hash is that digest and only then, and are otherwise the
\* whole assembled payload, never a part of it. (Stated of each agent's last
\* answer for as long as the table is what it was at that poll.)
C22_HashIsDigestAllOrNothing ==
    \A a \in Agents :
        (poll.polls[a] > 0 /\ poll.fresh[a]) =>
            LET payload == AssemblePayload(poll.assigned, a)
                resp == poll.resp[a]
            IN  /\ resp.hash = PayloadHash(payload)
                /\ IF resp.asked = PayloadHash(payload)
                   THEN resp.capabilities = EmptyValue /\ resp.facts = EmptyValue
                   ELSE /\ resp.capabilities = payload.capabilities
                        /\ resp.facts = payload.facts
                        /\ resp.capabilities # EmptyValue /\ resp.facts # EmptyValue

\* one agent holds an empty answer and the other a whole one with a resource,
\* both over the table as it is now
C22_Witness ==
    \E a, b \in Agents :
        /\ poll.fresh[a] /\ poll.fresh[b]
        /\ poll.resp[a].asked = poll.resp[a].hash
        /\ poll.resp[a].capabilities = EmptyValue
        /\ poll.resp[b].asked # poll.resp[b].hash
        /\ poll.resp[b].facts # EmptyValue
        /\ Len(poll.resp[b].capabilities["foo"].resources) > 0

\* C23: a poll without a hash is never taken for a match: its answer is the
\* whole payload under a hash that is not blank, with a resources list
\* (possibly empty) for every capability the agent declares, and one for
\* every declared fact and every declared capability among the facts.
C23_NoHashGetsFullPayload ==
    \A a \in Agents :
        (poll.polls[a] > 0 /\ poll.resp[a].asked = NoHash) =>
            LET resp == poll.resp[a]
            IN  /\ resp.hash # NoHash
                /\ DOMAIN resp.capabilities = DeclaredCapabilities
                /\ DOMAIN resp.facts = DeclaredFacts \cup DeclaredCapabilities
                /\ \A k \in DOMAIN resp.capabilities :
                      /\ DOMAIN resp.capabilities[k] = {"resources"}
                      /\ DOMAIN resp.capabilities[k].resources
                            = 1..Len(resp.capabilities[k].resources)
                /\ \A k \in DOMAIN resp.facts : resp.facts[k].resources = <<>>
                /\ poll.fresh[a] =>
                      /\ resp.capabilities = AssemblePayload(poll.assigned, a).capabilities
                      /\ resp.facts = AssemblePayload(poll.assigned, a).facts

\* an agent with nothing assigned has polled without a hash, and so has an
\* agent with a resource
C23_Witness ==
    \E a, b \in Agents :
        /\ poll.polls[a] > 0 /\ poll.resp[a].asked = NoHash /\ poll.fresh[a]
        /\ poll.resp[a].capabilities["foo"].resources = <<>>
        /\ poll.polls[b] > 0 /\ poll.resp[b].asked = NoHash /\ poll.fresh[b]
        /\ Len(poll.resp[b].capabilities["foo"].resources) > 0

\* the target resources of a kind that the table assigns to an agent
AssignedTo(assigned, a, k) ==
    {u \in DOMAIN assigned : assigned[u]["agent"] = a /\ assigned[u]["kind"] = k}

\* a whole answer lists, per kind, the stripped views of just the resources
\* assigned to the polling agent
FullAnswerListsAssigned(a) ==
    (Polls(a) /\ poll'.resp[a].capabilities # EmptyValue) =>
        \A k \in DeclaredCapabilities :
            LET res == poll'.resp[a].capabilities[k].resources
                mine == AssignedTo(poll.assigned, a, k)
            IN  /\ Len(res) = Cardinality(mine)
                /\ {res[i] : i \in DOMAIN res}
                     = {Without(poll.assigned[u], StrippedFields) : u \in mine}

\* the table changes in this step, and in the stripped fields only
StrippedFieldsChange ==
    /\ poll'.assigned # poll.assigned
    /\ DOMAIN poll'.assigned = DOMAIN poll.assigned
    /\ \A u \in DOMAIN poll.assigned :
          Without(poll'.assigned[u], StrippedFields) = Without(poll.assigned[u], StrippedFields)

\* the step leaves the digest of every agent's payload as it was
DigestsKept ==
    \A a \in Agents :
        PayloadHash(AssemblePayload(poll'.assigned, a))
            = PayloadHash(AssemblePayload(poll.assigned, a))

\* C24 as stated: a whole answer lists per kind exactly the target resources
\* assigned to the polling agent, as their stored views without agent,
\* master, node, tracked_at, master_hash and master_full_hash, and a change
\* of the table in those fields alone changes no payload hash.
C24_StrippedChangeKeepsHash ==
    [][/\ \A a \in Agents : FullAnswerListsAssigned(a)
       /\ StrippedFieldsChange => DigestsKept]_vars

\* C24 as it holds: the same, for a change in those fields that leaves every
\* resource with the agent it was assigned to (the field agent is itself the
\* assignment: rewriting it moves the resource from one payload to another).
C24_StrippedFieldsOfAssigned ==
    [][/\ \A a \in Agents : FullAnswerListsAssigned(a)
       /\ (/\ StrippedFieldsChange
           /\ \A u \in DOMAIN poll.assigned :
                 poll'.assigned[u]["agent"] = poll.assigned[u]["agent"])
             => DigestsKept]_vars

\* an agent was answered with its one resource, the table has changed since
\* (the resource now carries the later stamp), and the hash of that answer is
\* still the digest of what is assembled for the agent
C24_Witness ==
    \E a \in Agents :
        /\ poll.polls[a] = 1 /\ ~poll.fresh[a]
        /\ poll.resp[a].capabilities # EmptyValue
        /\ DOMAIN poll.assigned = {"r1"}
        /\ poll.assigned["r1"]["tracked_at"] = "t1"
        /\ poll.resp[a].capabilities["foo"].resources
             = <<Without(poll.assigned["r1"], StrippedFields)>>
        /\ poll.resp[a].hash = PayloadHash(AssemblePayload(poll.assigned, a))

\* C25: serving a poll changes nothing the controller holds: the table of
\* target resources stays as it is and so does what any other agent was
\* answered; and an agent that polls again with the same hash over the same
\* table, whoever polled in between, is answered as before.
C25_PollIsStateless ==
    [][\A a \in Agents :
         Polls(a) =>
            /\ poll'.assigned = poll.assigned
            /\ \A b \in Agents \ {a} :
                  poll'.resp[b] = poll.resp[b] /\ poll'.fresh[b] = poll.fresh[b]
            /\ (/\ poll.polls[a] > 0 /\ poll.fresh[a]
                /\ poll'.resp[a].asked = poll.resp[a].asked)
                  => poll'.resp[a] = poll.resp[a]]_vars

\* an agent with a resource has polled twice without a hash, the other agent
\* has polled too, and the table is what it was at each one's last poll
C25_Witness ==
    \E a, b \in Agents :
        /\ a # b
        /\ poll.polls[a] = 2 /\ poll.polls[b] = 1
        /\ poll.fresh[a] /\ poll.fresh[b]
        /\ poll.resp[a].asked = NoHash
        /\ Len(poll.resp[a].capabilities["foo"].resources) > 0

\* the target resource row a tracked row points at
TargetOf(tr, t) == tr.targets[tr.rows[t].target]

\* C26: whatever target resources were written and snapshots refreshed, a
\* tracked row is in the outdated view exactly when its full_hash is not the
\* full_hash its target resource has now; a row refreshed to that full_hash
\* is out of the view, and a row that was out of it is in it once the full_hash of
\* its target has changed. The view reads the two tables and nothing else.
C26_StaleIffFullHashDiffers ==
    [][\A t \in DOMAIN tracked'.rows :
         /\ tracked'.rows[t].target \in DOMAIN tracked'.targets
         /\ t \in OutdatedTrackedFullHashView(tracked')
              <=> tracked'.rows[t].full_hash # TargetOf(tracked', t).full_hash
         /\ (/\ t \in DOMAIN tracked.rows
             /\ tracked'.rows[t] # tracked.rows[t]
             /\ tracked'.rows[t].full_hash = TargetOf(tracked, t).full_hash)
               => t \notin OutdatedTrackedFullHashView(tracked')
         /\ (/\ t \in DOMAIN tracked.rows
             /\ t \notin OutdatedTrackedFullHashView(tracked)
             /\ tracked'.rows[t] = tracked.rows[t]
             /\ TargetOf(tracked', t).full_hash # TargetOf(tracked, t).full_hash)
               => t \in OutdatedTrackedFullHashView(tracked')]_vars

\* one tracked row is stale though its hash is still its target's (the
\* target changed outside its target fields after the snapshot was taken),
\* and another row is fresh
C26_Witness ==
    \E t, f \in DOMAIN tracked.rows :
        /\ t \in OutdatedTrackedFullHashView(tracked)
        /\ tracked.rows[t].full_hash # BlankSnapshot.full_hash
        /\ tracked.rows[t].hash = TargetOf(tracked, t).hash
        /\ f \notin OutdatedTrackedFullHashView(tracked)

\* C27: two dicts with the same keys and the same values, dicts among the
\* values included, get the same digest from calculate_hash whatever order
\* their keys were inserted in.
C27_KeyOrderInsensitive ==
    (applied.op = "calculate_hash" /\ SameMapping(applied.A, applied.B))
        => applied.hashA = applied.hashB

\* the two dicts hashed hold the same, have their two keys the other way
\* round, and hold a dict whose two keys are the other way round too
C27_Witness ==
    /\ applied.op = "calculate_hash"
    /\ SameMapping(applied.A, applied.B)
    /\ Len(applied.A) = 2
    /\ applied.A[1][1] = applied.B[2][1]
    /\ \E i, j \in 1..2 :
          /\ applied.A[i][2][1] = "d" /\ applied.B[j][2][1] = "d"
          /\ Len(applied.A[i][2][2]) = 2
          /\ applied.A[i][2][2][1][1] = applied.B[j][2][2][2][1]

\* C28: with ignore_null_attributes false, transform hands back the view it
\* was given, for every view and whatever attributes is.
C28_IdentityWhenNotIgnoring ==
    (applied.op \in {"transform", "twice"} /\ ~applied.t.ignore_null_attributes)
        => applied.out = applied.arg

\* a transformer that does not ignore nulls but names an attribute was given
\* a view where that attribute is null, and handed it back
C28_Witness ==
    /\ applied.op = "transform"
    /\ ~applied.t.ignore_null_attributes
    /\ ~applied.t.all /\ "name" \in applied.t.attributes
    /\ "name" \in DOMAIN applied.arg /\ applied.arg["name"] = Null
    /\ applied.out = applied.arg

\* the attributes transform has to drop from a view
MustDrop(t, view) ==
    {a \in DOMAIN view : view[a] = Null /\ (t.all \/ a \in t.attributes)}

\* C29: with ignore_null_attributes true, transform returns the entries of
\* the view less the null ones it has to drop: every null one when attributes
\* is unset, the null ones named in attributes when it is set. Every other
\* entry is kept with its value, the view passed in is left as it was, and
\* transform of the result is the result.
C29_DropsExactlyTheNulls ==
    (applied.op \in {"transform", "twice"} /\ applied.t.ignore_null_attributes) =>
        /\ DOMAIN applied.out = DOMAIN applied.arg \ MustDrop(applied.t, applied.arg)
        /\ \A a \in DOMAIN applied.out : applied.out[a] = applied.arg[a]
        /\ applied.view = applied.arg
        /\ applied.op = "twice" => applied.again = applied.out

\* transform, told to drop the null name, was given a view with a null name,
\* a null size and an empty uuid, kept the last two, and did so again on the
\* result
C29_Witness ==
    /\ applied.op = "twice"
    /\ applied.t.ignore_null_attributes
    /\ ~applied.t.all /\ applied.t.attributes = {"name"}
    /\ DOMAIN applied.arg = {"name", "size", "uuid"}
    /\ applied.arg["name"] = Null /\ applied.arg["size"] = Null
    /\ applied.arg["uuid"] = ""
    /\ DOMAIN applied.out = {"size", "uuid"}

\* the value carries a project, and it is not the client's
ForeignProject(value) ==
    /\ "project_id" \in DOMAIN value
    /\ value["project_id"] \notin {Null, ""}
    /\ value["project_id"] # ProjectId

\* C30: create of a resource whose value carries a project_id that is not the
\* client's own raises ResourceProjectMismatch and sends no create request:
\* the backend collection is what it was. (A null or empty project_id is no
\* project_id: create lets it through.)
C30_ProjectMismatchBeforeSend ==
    applied.op = "create" =>
        /\ ForeignProject(applied.value) =>
              applied.exc = "ResourceProjectMismatch" /\ backend = applied.before
        /\ applied.exc = "ResourceProjectMismatch" => ForeignProject(applied.value)

\* create was called with another project's resource that the backend does
\* not hold, raised ResourceProjectMismatch, and the backend still does not
\* hold it
C30_Witness ==
    /\ applied.op = "create"
    /\ applied.value["name"] = "a" /\ ForeignProject(applied.value)
    /\ applied.exc = "ResourceProjectMismatch"
    /\ <<applied.kind, applied.uuid>> \notin DOMAIN backend

\* the key of the resource the client was called with
AppliedKey == <<applied.kind, applied.uuid>>

\* C31: update never sends created_at, updated_at, project_id or uuid: what
\* the backend holds of them after the call is what it held before. Every
\* other attribute of the value arrives as it is, the value of the resource
\* is left as the caller built it, and ResourceNotFound is what a backend
\* without the resource is answered with (the collection unchanged).
C31_UpdateStripsReadOnly ==
    applied.op = "update" =>
        /\ applied.value = applied.passed
        /\ (applied.exc = "ResourceNotFound") =>
              AppliedKey \notin DOMAIN applied.before /\ backend = applied.before
        /\ (AppliedKey \notin DOMAIN applied.before /\ applied.exc # "Error")
              => applied.exc = "ResourceNotFound"
        /\ applied.exc = "" =>
              /\ AppliedKey \in DOMAIN applied.before
              /\ \A a \in DOMAIN applied.passed \ ReadOnlyFields :
                    backend[AppliedKey][a] = applied.passed[a]
              /\ \A a \in ReadOnlyFields :
                    IF a \in DOMAIN applied.before[AppliedKey]
                    THEN backend[AppliedKey][a] = applied.before[AppliedKey][a]
                    ELSE a \notin DOMAIN backend[AppliedKey]
              /\ \A key \in DOMAIN backend \ {AppliedKey} :
                    backend[key] = applied.before[key]

\* an update whose value held all four read-only attributes and a size went
\* through: the object has the size and still its own uuid
C31_Witness ==
    /\ applied.op = "update" /\ applied.exc = ""
    /\ ReadOnlyFields \cup {"size"} \subseteq DOMAIN applied.passed
    /\ backend[AppliedKey]["size"] = "b"
    /\ backend[AppliedKey]["uuid"] = applied.uuid
    /\ "created_at" \notin DOMAIN backend[AppliedKey]

\* C32: for a request that names a node with a registered key, encryption is
\* required exactly when the time is at or after the key's
\* encryption_disabled_until; the middleware answers 400 and the application
\* is not reached when it is required and the Content-Type is not the
\* encrypted one, and hands the request to the application in every other
\* case.
C32_MiddlewareGate ==
    [][(applied.op = "request" /\ applied'.op # "request" /\ applied.node = "n1") =>
          LET required == applied.now >= applied.until
          IN  /\ applied'.asked_m = (IF required THEN "yes" ELSE "no")
              /\ IF required /\ applied.ctype # ENCRYPTED_JSON_CONTENT_TYPE
                 THEN applied'.op = "answered" /\ applied'.status = "400"
                 ELSE applied'.op = "application" /\ applied'.status = ""]_vars

\* a plain JSON request was answered 400 at the very time encryption became
\* required
C32_Witness ==
    /\ applied.op = "answered" /\ applied.status = "400"
    /\ applied.ctype = "application/json"
    /\ applied.now = applied.until

\* C33 as stated: when encryption is required for a request that has reached
\* a controller, the response has the encrypted content type as Content-Type,
\* an X-Genesis-Nonce header and the request's node as X-Genesis-Node-UUID;
\* when it is not required the controller adds no header.
C33_EncryptedResponseHeaders ==
    applied.op = "application" =>
        /\ applied.asked_c = "yes" =>
              /\ DOMAIN applied.headers
                    = {"Content-Type", "X-Genesis-Nonce", "X-Genesis-Node-UUID"}
              /\ applied.headers["Content-Type"] = ENCRYPTED_JSON_CONTENT_TYPE
              /\ applied.headers["X-Genesis-Node-UUID"] = applied.node
        /\ applied.asked_c = "no" => applied.headers = EmptyValue

\* C37: within a request the response nonce is generated at most once: the
\* X-Genesis-Nonce header of the response is the encoding of the nonce the
\* packer encrypts the body under, whichever of the two read it first.
C37_OneResponseNonce ==
    applied.op = "application" =>
        /\ Len(applied.generated) <= 1
        /\ applied.response_nonce # NoNonce => applied.generated = <<applied.response_nonce>>
        /\ (applied.headers # EmptyValue /\ applied.packed # NoNonce)
              => applied.headers["X-Genesis-Nonce"] = <<"b64", applied.packed>>

\* the controller has set the headers and the packer has encrypted the body,
\* under the one nonce generated, which is not the nonce of the request
C37_Witness ==
    /\ applied.op = "application"
    /\ applied.headers # EmptyValue /\ applied.packed # NoNonce
    /\ applied.headers["X-Genesis-Nonce"] = <<"b64", applied.packed>>
    /\ applied.generated = <<applied.packed>>
    /\ applied.packed # applied.request_nonce

\* the calls of one kind in the log, as the services they were made on
CallsOf(what) ==
    LET made == SelectSeq(applied.calls, LAMBDA call : call[1] = what)
    IN  [i \in DOMAIN made |-> made[i][2]]

\* C34: after _setup and n calls of _iteration, none of which raised, every
\* service given to the GService has had _setup called once and
\* _loop_iteration called n times, the services being gone through in the
\* order given within every call.
C34_EveryServiceEveryTime ==
    (applied.op = "setup" /\ ~applied.raised) =>
        /\ CallsOf("_setup") = applied.services
        /\ Len(CallsOf("_loop_iteration")) = applied.n * Len(applied.services)
        /\ \A i \in DOMAIN CallsOf("_loop_iteration") :
              CallsOf("_loop_iteration")[i]
                 = applied.services[((i - 1) % Len(applied.services)) + 1]
        /\ Len(applied.calls) = (applied.n + 1) * Len(applied.services)

\* three services have been set up and iterated twice
C34_Witness ==
    /\ applied.op = "setup" /\ ~applied.raised
    /\ Len(applied.services) = 3 /\ applied.n = 2
    /\ applied.calls[1] = <<"_setup", applied.services[1]>>
    /\ applied.calls[9] = <<"_loop_iteration", applied.services[3]>>

\* C35 as stated: main builds every service listed in both services and
\* disable_auto_opts by the from_config classmethod of its class with the
\* path of the configuration file, not by its constructor and without
\* registering its options, hands the instances to GService and starts it.
C35_ManualServicesFromConfig ==
    (/\ applied.op = "main"
     /\ \A i \in DOMAIN applied.services :
           applied.services[i] \in applied.disable_auto_opts
              => "from_config" \in applied.classes[applied.services[i]].methods) =>
        /\ applied.started
        /\ \A i \in DOMAIN applied.services :
              applied.services[i] \in applied.disable_auto_opts =>
                 /\ applied.services[i] \notin applied.registered
                 /\ \E j \in DOMAIN applied.built :
                       applied.built[j] = <<applied.services[i], "from_config", "config_file">>

\* what the claim says of the calls whose two paths hold directories or
\* nothing, but for the case of differing parents
SwapCases ==
    /\ (applied.op = "returned" /\ applied.before.dir1 # "" /\ applied.before.dir2 # "") =>
          /\ applied.same
          /\ applied.fs.dir1 = applied.before.dir2
          /\ applied.fs.dir2 = applied.before.dir1
          /\ applied.fs.tmp_a = ""
    /\ (applied.op \in {"returned", "raised"} /\ "file" \notin {applied.before.dir1, applied.before.dir2}
           /\ (applied.before.dir1 = "") # (applied.before.dir2 = "")) =>
          /\ applied.op = "returned"
          /\ applied.fs.dir1 = applied.before.dir2
          /\ applied.fs.dir2 = applied.before.dir1
    /\ (applied.op \in {"returned", "raised"}
           /\ applied.before.dir1 = "" /\ applied.before.dir2 = "") =>
          applied.op = "returned" /\ applied.fs = applied.before
    /\ applied.op = "interrupted" => (applied.fs.dir1 = "" \/ applied.fs.dir2 = "")

References(db) ==
    /\ \A t \in DOMAIN db.rows : \A ref \in {db.rows[t].watcher, db.rows[t].target} :
          ref = Null \/ \E u \in DOMAIN db.targets : db.targets[u].res_uuid = ref
    /\ \A u \in DOMAIN db.targets :
          /\ db.targets[u].agent \in db.agents \cup {Null}
          /\ db.targets[u].master \in DOMAIN db.targets \cup {Null}

\* C38: after every insert and delete no tracked resource refers to a watcher
\* or target that is not there and no target resource to an agent or master
\* that is not there; the delete of a target resource leaves no tracked
\* resource whose watcher or target it was and no target resource whose
\* master it was, the delete of an agent no target resource assigned to it.
C38_NoDanglingReference ==
    [][applied'.op = "db" =>
         /\ References(applied')
         /\ applied.op = "db" =>
               /\ \A u \in DOMAIN applied.targets \ DOMAIN applied'.targets :
                     /\ \A t \in DOMAIN applied'.rows :
                           applied.targets[u].res_uuid
                              \notin {applied'.rows[t].watcher, applied'.rows[t].target}
                     /\ \A v \in DOMAIN applied'.targets : applied'.targets[v].master # u
               /\ \A a \in applied.agents \ applied'.agents :
                     \A v \in DOMAIN applied'.targets : applied'.targets[v].agent # a]_vars

\* the delete of an agent took away a target resource assigned to it and one
\* assigned to the other agent whose master that was; a target resource of
\* the other agent is left, and a tracked resource of it that watches nothing
C38_Witness ==
    /\ applied.op = "db"
    /\ applied.gone = {"r1", "r2"}
    /\ applied.agents = {"a2"}
    /\ DOMAIN applied.targets = {"r3"}
    /\ applied.targets["r3"].agent = "a2"
    /\ DOMAIN applied.rows = {"t1"}
    /\ applied.rows["t1"].watcher = Null /\ applied.rows["t1"].target = "p3"
====
